---- MODULE Spec2Model ----
(***************************************************************************)
(* Model of the DreamLyzer analysis core: the pattern-comparison utilities *)
(* (utils/dreamPatternComparison), the dream analyser (utils/dreamAnalyzer)*)
(* and the advanced NLP helpers (utils/advancedNLP).                       *)
(*                                                                         *)
(* Every function of the source is an operator with the source's name; a   *)
(* call is a two-step state machine: `call` holds the function name and    *)
(* its arguments, the action of that function computes `ret`; `ran` is the *)
(* set of analysis components the call went through; `db` is the dreams     *)
(* collection of the database, `inflight` the documents that handlers have *)
(* loaded and not yet saved, `served` the number of views answered for     *)
(* each dream, `users` the users collection and `clock` the server's time. *)
(*                                                                         *)
(* JavaScript numbers are modelled as exact rationals [n, d]; a value that *)
(* may be undefined is a sequence of length 0 (undefined) or 1 (present).  *)
(* Strings that the code inspects character by character are sequences of  *)
(* one-character strings.                                                  *)
(***************************************************************************)
EXTENDS Integers, Sequences, FiniteSets, Bags, TLC

VARIABLES pc, call, ret, ran, db, inflight, served, users, clock

vars == <<pc, call, ret, ran, db, inflight, served, users, clock>>

\* a point in time: a calendar day and an instant of that day
Instant(day, tick) == [day |-> day, tick |-> tick]

Epoch == Instant(1, 1)

(***************************************************************************)
(* Bounds of the model                                                     *)
(***************************************************************************)
MaxList == 2
MaxAbsScore == 2
MaxHistory == 3
MaxWords == 2

(***************************************************************************)
(* Optional values and exact arithmetic                                    *)
(***************************************************************************)
None == <<>>
Some(x) == <<x>>
IsSome(o) == Len(o) > 0
Val(o) == o[1]

Abs(x) == IF x < 0 THEN -x ELSE x
Max(a, b) == IF a >= b THEN a ELSE b
Min(a, b) == IF a <= b THEN a ELSE b

RECURSIVE Gcd(_, _)
Gcd(a, b) == IF b = 0 THEN a ELSE Gcd(b, a % b)

Rat(n, d) ==
  LET g == Gcd(Abs(n), Abs(d))
      s == IF d < 0 THEN -1 ELSE 1
  IN [n |-> (s * n) \div g, d |-> (s * d) \div g]

Zero == Rat(0, 1)
One == Rat(1, 1)
RatAdd(a, b) == Rat(a.n * b.d + b.n * a.d, a.d * b.d)
RatSub(a, b) == Rat(a.n * b.d - b.n * a.d, a.d * b.d)
RatMul(a, b) == Rat(a.n * b.n, a.d * b.d)
RatDiv(a, b) == Rat(a.n * b.d, a.d * b.n)
RatAbs(a) == Rat(Abs(a.n), a.d)
RatLt(a, b) == a.n * b.d < b.n * a.d
RatLeq(a, b) == a.n * b.d <= b.n * a.d
RatMin(a, b) == IF RatLeq(a, b) THEN a ELSE b

(***************************************************************************)
(* Array helpers                                                           *)
(***************************************************************************)
Includes(arr, x) == \E i \in 1..Len(arr) : arr[i] = x

\* the k-th smallest element of a set of numbers
Nth(S, k) == CHOOSE x \in S : Cardinality({y \in S : y < x}) = k - 1

\* the elements at the positions of a set, in the order of the positions
AtPositions(arr, positions) ==
  [k \in 1..Cardinality(positions) |-> arr[Nth(positions, k)]]

Filter(arr, Keep(_)) == AtPositions(arr, {i \in 1..Len(arr) : Keep(arr[i])})

Map(arr, F(_)) == [i \in 1..Len(arr) |-> F(arr[i])]

Slice(arr, from, to) == SubSeq(arr, from + 1, Min(to, Len(arr)))

MinOf(S) == CHOOSE x \in S : \A y \in S : x <= y

\* Array.prototype.sort with a comparator: a stable sort.  Before(a, b) is
\* "the comparator is negative for (a, b)": a must come before b.  The element at
\* position i ends up behind the elements that must come before it and behind
\* the earlier elements it need not come before.
SortRank(arr, i, Before(_, _)) ==
  Cardinality({j \in 1..Len(arr) :
                 \/ Before(arr[j], arr[i])
                 \/ j < i /\ ~Before(arr[i], arr[j])})

Sort(arr, Before(_, _)) ==
  [k \in 1..Len(arr) |->
     arr[CHOOSE i \in 1..Len(arr) : SortRank(arr, i, Before) = k - 1]]

\* all sequences without repetition over S, of length at most n
RECURSIVE DistinctSeqs(_, _)
DistinctSeqs(S, n) ==
  IF n = 0 THEN {<<>>}
  ELSE LET shorter == DistinctSeqs(S, n - 1)
       IN shorter \cup {Append(s[1], s[2]) :
                          s \in {p \in shorter \X S : ~Includes(p[1], p[2])}}

\* all sequences over S of length at most n
RECURSIVE SeqsUpTo(_, _)
SeqsUpTo(S, n) ==
  IF n = 0 THEN {<<>>}
  ELSE LET shorter == SeqsUpTo(S, n - 1)
       IN shorter \cup {Append(s, x) : s \in shorter, x \in S}

(***************************************************************************)
(* utils/dreamPatternComparison: calculateDreamSimilarity                  *)
(*                                                                         *)
(* A stored dream is [_id, date, emotions, symbols, keywords, sentiment]:  *)
(* emotions is None or Some(primary), symbols is None or Some(list of      *)
(* [symbol |-> name]), keywords is None or Some(list of terms), sentiment  *)
(* is None or Some(score).                                                 *)
(***************************************************************************)
SentimentSimilarity(score1, score2) ==
  LET sentimentDiff == RatAbs(RatSub(score1, score2))
  IN RatSub(One, RatDiv(sentimentDiff, Rat(2, 1)))

\* mutant: the common elements are divided by the size of the first list
OverlapOfFirst(list1, list2) ==
  LET common == Filter(list1, LAMBDA x : Includes(list2, x))
  IN Rat(Len(common), Len(list1))

\* mutant: the common elements are divided by the smaller of the two sizes
OverlapOfSmaller(list1, list2) ==
  LET common == Filter(list1, LAMBDA x : Includes(list2, x))
  IN Rat(Len(common), Min(Len(list1), Len(list2)))

Overlap(list1, list2) ==
  LET common == Filter(list1, LAMBDA x : Includes(list2, x))
  IN Rat(Len(common), Max(Len(list1), Len(list2)))

calculateDreamSimilarity(dream1, dream2) ==
  LET emotional ==
        IF /\ IsSome(dream1.emotions) /\ Val(dream1.emotions) # ""
           /\ IsSome(dream2.emotions) /\ Val(dream2.emotions) # ""
        THEN IF Val(dream1.emotions) = Val(dream2.emotions) THEN One ELSE Zero
        ELSE Zero
      symbols1 == IF IsSome(dream1.symbols)
                  THEN Map(Val(dream1.symbols), LAMBDA s : s.symbol) ELSE <<>>
      symbols2 == IF IsSome(dream2.symbols)
                  THEN Map(Val(dream2.symbols), LAMBDA s : s.symbol) ELSE <<>>
      symbolic == IF Len(symbols1) > 0 /\ Len(symbols2) > 0
                  THEN Overlap(symbols1, symbols2) ELSE Zero
      keywords1 == IF IsSome(dream1.keywords) THEN Val(dream1.keywords) ELSE <<>>
      keywords2 == IF IsSome(dream2.keywords) THEN Val(dream2.keywords) ELSE <<>>
      thematic == IF Len(keywords1) > 0 /\ Len(keywords2) > 0
                  THEN Overlap(keywords1, keywords2) ELSE Zero
      sentiment == IF IsSome(dream1.sentiment) /\ IsSome(dream2.sentiment)
                   THEN SentimentSimilarity(Val(dream1.sentiment), Val(dream2.sentiment))
                   ELSE Zero
      overall == RatAdd(RatAdd(RatAdd(RatMul(emotional, Rat(3, 10)),
                                      RatMul(symbolic, Rat(3, 10))),
                               RatMul(thematic, Rat(3, 10))),
                        RatMul(sentiment, Rat(1, 10)))
  IN [overall |-> overall, emotional |-> emotional, symbolic |-> symbolic,
      thematic |-> thematic, sentiment |-> sentiment]

(***************************************************************************)
(* utils/dreamPatternComparison: findRelatedDreams                         *)
(***************************************************************************)
DefaultSimilarityThreshold == Rat(4, 10)

\* mutant: the filtered list is returned without the sort
findRelatedDreamsUnsorted(targetDream, dreamHistory, similarityThreshold) ==
  LET similarities ==
        Map(dreamHistory,
            LAMBDA dream : [dreamId |-> dream._id, date |-> dream.date,
                            similarity |-> calculateDreamSimilarity(targetDream, dream)])
  IN Filter(similarities,
            LAMBDA item : RatLeq(similarityThreshold, item.similarity.overall))

findRelatedDreams(targetDream, dreamHistory, similarityThreshold) ==
  LET similarities ==
        Map(dreamHistory,
            LAMBDA dream : [dreamId |-> dream._id, date |-> dream.date,
                            similarity |-> calculateDreamSimilarity(targetDream, dream)])
      kept == Filter(similarities,
                     LAMBDA item : RatLeq(similarityThreshold, item.similarity.overall))
  IN Sort(kept, LAMBDA a, b : RatLt(b.similarity.overall, a.similarity.overall))

(***************************************************************************)
(* utils/dreamPatternComparison: analyzeTrends                             *)
(*                                                                         *)
(* A month key is the string `${year}-${month}`, a sequence of characters; *)
(* dreamsByMonth maps each key to the dreams of that month in the order    *)
(* they were pushed.                                                       *)
(***************************************************************************)
DigitChar == <<"0", "1", "2", "3", "4", "5", "6", "7", "8", "9">>

RECURSIVE NumberToString(_)
NumberToString(n) ==
  IF n < 10 THEN <<DigitChar[n + 1]>>
  ELSE Append(NumberToString(n \div 10), DigitChar[(n % 10) + 1])

\* UTF-16 code units of the characters of a month key
CharCode(c) ==
  IF c = "-" THEN 45
  ELSE 47 + (CHOOSE i \in 1..10 : DigitChar[i] = c)

\* the default comparison of Array.prototype.sort: by code units
StringLess(a, b) ==
  \/ \E i \in 1..Min(Len(a), Len(b)) :
       /\ \A j \in 1..(i - 1) : a[j] = b[j]
       /\ CharCode(a[i]) < CharCode(b[i])
  \/ /\ Len(a) < Len(b)
     /\ \A j \in 1..Len(a) : a[j] = b[j]

monthKey(date) == NumberToString(date.year) \o <<"-">> \o NumberToString(date.month)

getProperty(dream, propertyPath) ==
  IF propertyPath = "emotions.primary" THEN dream.emotions ELSE dream.sentiment

\* typeof value === 'number': sentiment scores are numbers, primary emotions strings
IsNumericPath(propertyPath) == propertyPath = "sentiment.score"

RECURSIVE SumRange(_, _, _)
SumRange(values, first, last) ==
  IF first > last THEN Zero
  ELSE IF first = last THEN values[first]
       ELSE RatAdd(SumRange(values, first, (first + last) \div 2),
                   SumRange(values, ((first + last) \div 2) + 1, last))

Sum(values) == SumRange(values, 1, Len(values))

CountOf(values, v) == Cardinality({i \in 1..Len(values) : values[i] = v})

\* the keys of valueCounts in insertion order
DistinctInOrder(values) ==
  AtPositions(values,
              {i \in 1..Len(values) : \A j \in 1..(i - 1) : values[j] # values[i]})

\* mutant: on equal counts the later key wins
mostFrequentOfLast(values, keys) ==
  LET M[i \in 0..Len(keys)] ==
        IF i = 0 THEN [mostFrequent |-> None, highestCount |-> 0]
        ELSE IF CountOf(values, keys[i]) >= M[i - 1].highestCount
             THEN [mostFrequent |-> Some(keys[i]),
                   highestCount |-> CountOf(values, keys[i])]
             ELSE M[i - 1]
  IN M[Len(keys)].mostFrequent

\* the forEach over Object.entries(valueCounts): the first key with the highest count
mostFrequentOf(values, keys) ==
  LET M[i \in 0..Len(keys)] ==
        IF i = 0 THEN [mostFrequent |-> None, highestCount |-> 0]
        ELSE IF CountOf(values, keys[i]) > M[i - 1].highestCount
             THEN [mostFrequent |-> Some(keys[i]),
                   highestCount |-> CountOf(values, keys[i])]
             ELSE M[i - 1]
  IN M[Len(keys)].mostFrequent

MostFrequent(values) == mostFrequentOf(values, DistinctInOrder(values))

\* the value of one month from the non-null values of its dreams: None stands for null
valueOfMonth(values, propertyPath) ==
  IF Len(values) = 0 THEN None
  ELSE IF IsNumericPath(propertyPath)
       THEN Some(RatDiv(Sum(values), Rat(Len(values), 1)))
       ELSE MostFrequent(values)

\* mutant: a dream without the field counts as one with the value 0
MonthlyValueMissingAsZero(dreams, propertyPath) ==
  IF IsNumericPath(propertyPath)
  THEN Some(RatDiv(Sum(Map(Filter(Map(dreams, LAMBDA d : getProperty(d, propertyPath)),
                                  IsSome),
                           Val)),
                   Rat(Len(dreams), 1)))
  ELSE valueOfMonth(Map(Filter(Map(dreams, LAMBDA d : getProperty(d, propertyPath)),
                             IsSome),
                        Val),
                    propertyPath)

MonthlyValue(dreams, propertyPath) ==
  valueOfMonth(Map(Filter(Map(dreams, LAMBDA d : getProperty(d, propertyPath)), IsSome),
                   Val),
               propertyPath)

\* mutant: the direction compares the last value with the first
trendDirectionOfEnds(monthlyValues) ==
  IF RatLt(monthlyValues[1], monthlyValues[Len(monthlyValues)]) THEN "increasing"
  ELSE IF RatLt(monthlyValues[Len(monthlyValues)], monthlyValues[1]) THEN "decreasing"
       ELSE "stable"

trendDirection(monthlyValues) ==
  LET n == Len(monthlyValues)
      increasing == Cardinality({i \in 2..n : RatLt(monthlyValues[i - 1], monthlyValues[i])})
      decreasing == Cardinality({i \in 2..n : RatLt(monthlyValues[i], monthlyValues[i - 1])})
  IN IF increasing > decreasing THEN "increasing"
     ELSE IF decreasing > increasing THEN "decreasing" ELSE "stable"

numericTrend(monthlyValues, direction) ==
  [hasEvolution |-> direction # "stable", trend |-> direction,
   direction |-> direction, startValue |-> monthlyValues[1],
   endValue |-> monthlyValues[Len(monthlyValues)], values |-> monthlyValues]

categoricalTrend(monthlyValues, hasChanged) ==
  [hasEvolution |-> hasChanged,
   trend |-> IF hasChanged THEN "changing" ELSE "stable",
   startValue |-> monthlyValues[1], endValue |-> monthlyValues[Len(monthlyValues)],
   values |-> monthlyValues]

MinTrendPoints == 3

trendOf(monthlyValues, propertyPath) ==
  IF Len(monthlyValues) < MinTrendPoints
  THEN [hasEvolution |-> FALSE, trend |-> "insufficient data"]
  ELSE IF IsNumericPath(propertyPath)
       THEN numericTrend(monthlyValues, trendDirection(monthlyValues))
       ELSE categoricalTrend(monthlyValues,
                             monthlyValues[1] # monthlyValues[Len(monthlyValues)])

analyzeTrends(sortedMonths, dreamsByMonth, propertyPath) ==
  trendOf(Map(Filter(Map(sortedMonths,
                         LAMBDA month : MonthlyValue(dreamsByMonth[month], propertyPath)),
                     IsSome),
              Val),
          propertyPath)

(***************************************************************************)
(* utils/dreamPatternComparison: findEvolvingPatterns                      *)
(***************************************************************************)
MinTrendHistory == 3

NotEnoughHistory == "Not enough dream history to identify evolving patterns."
NoClearPatterns == "No clear evolving patterns detected in your dream history."

monthKeysInOrder(allDreams) ==
  DistinctInOrder(Map(allDreams, LAMBDA d : monthKey(d.date)))

groupByMonth(allDreams) ==
  [k \in {monthKey(allDreams[i].date) : i \in 1..Len(allDreams)} |->
     Filter(allDreams, LAMBDA d : monthKey(d.date) = k)]

emotionInsight(emotionTrends) ==
  IF emotionTrends.hasEvolution
  THEN << <<"Your dreams show an emotional shift from predominantly ",
            emotionTrends.startValue, " to ", emotionTrends.endValue,
            " over time.">> >>
  ELSE <<>>

sentimentInsight(sentimentTrends) ==
  IF sentimentTrends.hasEvolution
  THEN << <<"The emotional tone of your dreams has become ",
            IF sentimentTrends.direction = "increasing"
            THEN "more positive" ELSE "more negative",
            " over the recorded period.">> >>
  ELSE <<>>

evolvingResult(insights, emotionTrends, sentimentTrends) ==
  [hasEvolvingPatterns |-> Len(insights) > 0,
   insights |-> IF Len(insights) > 0 THEN insights ELSE <<NoClearPatterns>>,
   emotionTrends |-> emotionTrends,
   sentimentTrends |-> sentimentTrends]

insightsOfTrends(emotionTrends, sentimentTrends) ==
  evolvingResult(emotionInsight(emotionTrends) \o sentimentInsight(sentimentTrends),
                 emotionTrends, sentimentTrends)

trendsOfMonths(sortedMonths, dreamsByMonth) ==
  insightsOfTrends(analyzeTrends(sortedMonths, dreamsByMonth, "emotions.primary"),
                   analyzeTrends(sortedMonths, dreamsByMonth, "sentiment.score"))

\* the computation after the early return
evolvingPatternsOf(currentDream, dreamHistory) ==
  trendsOfMonths(Sort(monthKeysInOrder(Append(dreamHistory, currentDream)), StringLess),
                 groupByMonth(Append(dreamHistory, currentDream)))

\* mutant: the history check lets a history of two entries through
findEvolvingPatternsShortHistory(currentDream, dreamHistory) ==
  IF Len(dreamHistory) < MinTrendHistory - 1
  THEN [hasEvolvingPatterns |-> FALSE, insights |-> <<NotEnoughHistory>>]
  ELSE evolvingPatternsOf(currentDream, dreamHistory)

findEvolvingPatterns(currentDream, dreamHistory) ==
  IF Len(dreamHistory) < MinTrendHistory
  THEN [hasEvolvingPatterns |-> FALSE, insights |-> <<NotEnoughHistory>>]
  ELSE evolvingPatternsOf(currentDream, dreamHistory)

(***************************************************************************)
(* Stored dreams handed to the pattern-comparison utilities                *)
(***************************************************************************)
KeywordTerms == {"water", "fear"}
SymbolNames == {"water", "fire"}
PrimaryEmotions == {"positive", "negative"}

SymbolRecords(names) == Map(names, LAMBDA x : [symbol |-> x])

EmotionsDomain == {None} \cup {Some(p) : p \in PrimaryEmotions}
SymbolsDomain ==
  {None} \cup {Some(SymbolRecords(l)) : l \in DistinctSeqs(SymbolNames, MaxList)}
KeywordsDomain == {None} \cup {Some(l) : l \in DistinctSeqs(KeywordTerms, MaxList)}
\* scores at both ends of the range, and two scores one apart
SentimentDomain ==
  {None} \cup {Some(Rat(k, 1)) : k \in {-MaxAbsScore, 0, 1, MaxAbsScore}}

Date(y, m) == [year |-> y, month |-> m]

Dreams(emotionsSet, symbolsSet, keywordsSet, sentimentSet, dateSet) ==
  {[_id |-> 0, date |-> dt, emotions |-> e, symbols |-> sy, keywords |-> k,
    sentiment |-> se] :
     e \in emotionsSet, sy \in symbolsSet, k \in keywordsSet, se \in sentimentSet,
     dt \in dateSet}

AnalysedDreams ==
  Dreams(EmotionsDomain, SymbolsDomain, KeywordsDomain, SentimentDomain,
         {Date(2024, 1)})

\* the history of a request: the documents of one user, each with its own _id
WithIds(history) == [i \in 1..Len(history) |-> [history[i] EXCEPT !._id = i]]

RelatedPool ==
  Dreams({Some("positive"), Some("negative")},
         {None, Some(SymbolRecords(<<"water">>))},
         {Some(<<"water">>)},
         {Some(Rat(0, 1)), Some(Rat(MaxAbsScore, 1))},
         {Date(2024, 1)})

RelatedTargets ==
  Dreams({Some("positive")}, {Some(SymbolRecords(<<"water">>))},
         {Some(<<"water", "fear">>), None}, {Some(Rat(0, 1))}, {Date(2024, 1)})

Thresholds == {DefaultSimilarityThreshold, Rat(0, 1), Rat(7, 10)}

(***************************************************************************)
(* Calls of calculateDreamSimilarity                                       *)
(***************************************************************************)
InitSimilarity ==
  /\ pc = "call"
  /\ \E a \in AnalysedDreams, b \in AnalysedDreams :
       call = [fn |-> "calculateDreamSimilarity", dream1 |-> a, dream2 |-> b]
  /\ ret = <<>>
  /\ ran = {}
  /\ db = <<>>
  /\ inflight = <<>>
  /\ served = <<>>
  /\ users = <<>>
  /\ clock = Epoch

CalculateDreamSimilarity ==
  /\ pc = "call"
  /\ call.fn = "calculateDreamSimilarity"
  /\ ret' = calculateDreamSimilarity(call.dream1, call.dream2)
  /\ pc' = "done"
  /\ UNCHANGED <<call, ran, db, inflight, served, users, clock>>

NextSimilarity == CalculateDreamSimilarity

SpecSimilarity == InitSimilarity /\ [][NextSimilarity]_vars

(***************************************************************************)
(* Calls of findRelatedDreams                                              *)
(***************************************************************************)
InitRelated ==
  /\ pc = "call"
  /\ \E t \in RelatedTargets, h \in SeqsUpTo(RelatedPool, MaxHistory),
        th \in Thresholds :
       call = [fn |-> "findRelatedDreams", targetDream |-> t,
               dreamHistory |-> WithIds(h), similarityThreshold |-> th]
  /\ ret = <<>>
  /\ ran = {}
  /\ db = <<>>
  /\ inflight = <<>>
  /\ served = <<>>
  /\ users = <<>>
  /\ clock = Epoch

FindRelatedDreams ==
  /\ pc = "call"
  /\ call.fn = "findRelatedDreams"
  /\ ret' = findRelatedDreams(call.targetDream, call.dreamHistory,
                              call.similarityThreshold)
  /\ pc' = "done"
  /\ UNCHANGED <<call, ran, db, inflight, served, users, clock>>

NextRelated == FindRelatedDreams

SpecRelated == InitRelated /\ [][NextRelated]_vars

(***************************************************************************)
(* C1: for all pairs of analysed dreams, including pairs whose sentiment   *)
(* scores differ by more than 2, every value returned by                   *)
(* calculateDreamSimilarity (emotional, symbolic, thematic, sentiment and  *)
(* overall) lies in [0, 1].                                                *)
(***************************************************************************)
InUnit(x) == RatLeq(Zero, x) /\ RatLeq(x, One)

SimilarityReturned == pc = "done" /\ call.fn = "calculateDreamSimilarity"

C1_SimilarityInUnitInterval ==
  SimilarityReturned =>
    /\ InUnit(ret.emotional)
    /\ InUnit(ret.symbolic)
    /\ InUnit(ret.thematic)
    /\ InUnit(ret.sentiment)
    /\ InUnit(ret.overall)

(***************************************************************************)
(* C2: the sequence returned by findRelatedDreams is sorted by             *)
(* non-increasing similarity.overall and contains exactly the history      *)
(* entries whose overall similarity to the target is at least the          *)
(* threshold, each of them once.                                           *)
(***************************************************************************)
RelatedReturned == pc = "done" /\ call.fn = "findRelatedDreams"

OverallOf(dream) == calculateDreamSimilarity(call.targetDream, dream).overall

C2_RelatedSortedAndComplete ==
  RelatedReturned =>
    /\ \A i \in 1..(Len(ret) - 1) :
         RatLeq(ret[i + 1].similarity.overall, ret[i].similarity.overall)
    /\ \A i \in 1..Len(ret) :
         RatLeq(call.similarityThreshold, ret[i].similarity.overall)
    /\ \A j \in 1..Len(call.dreamHistory) :
         LET d == call.dreamHistory[j]
             hits == {i \in 1..Len(ret) : ret[i].dreamId = d._id}
         IN IF RatLeq(call.similarityThreshold, OverallOf(d))
            THEN /\ Cardinality(hits) = 1
                 /\ \A i \in hits : ret[i].similarity = calculateDreamSimilarity(call.targetDream, d)
            ELSE hits = {}
    /\ \A i \in 1..Len(ret) :
         \E j \in 1..Len(call.dreamHistory) : call.dreamHistory[j]._id = ret[i].dreamId

\* a call whose result keeps several entries of different similarity and drops one
C2_Witness ==
  /\ RelatedReturned
  /\ Len(ret) >= 2
  /\ Len(ret) < Len(call.dreamHistory)
  /\ RatLt(ret[Len(ret)].similarity.overall, ret[1].similarity.overall)
  /\ call.similarityThreshold = DefaultSimilarityThreshold

(***************************************************************************)
(* Calls of findEvolvingPatterns: generateDreamInsights passes the user's  *)
(* other dreams, newest first, and the dream the insights are for.         *)
(***************************************************************************)
TrendMonths == {2, 9, 10}
TrendDates == {Date(2024, m) : m \in TrendMonths}

TrendPool ==
  Dreams({Some("positive")}, {None}, {None}, {Some(Rat(1, 1))}, TrendDates)
  \cup Dreams({Some("negative")}, {None}, {None}, {Some(Rat(-1, 1))}, TrendDates)
  \cup Dreams({None}, {None}, {None}, {None}, TrendDates)

TrendCurrent ==
  Dreams({Some("positive")}, {None}, {None}, {Some(Rat(1, 1))}, TrendDates)
  \cup Dreams({Some("negative")}, {None}, {None}, {None}, TrendDates)

DateLeq(a, b) == a.year < b.year \/ (a.year = b.year /\ a.month <= b.month)

NewestFirst(history) ==
  \A i \in 1..(Len(history) - 1) : DateLeq(history[i + 1].date, history[i].date)

InitEvolving ==
  /\ pc = "call"
  /\ \E c \in TrendCurrent, h \in SeqsUpTo(TrendPool, MaxHistory) :
       /\ NewestFirst(h)
       /\ call = [fn |-> "findEvolvingPatterns", currentDream |-> c,
                  dreamHistory |-> WithIds(h)]
  /\ ret = <<>>
  /\ ran = {}
  /\ db = <<>>
  /\ inflight = <<>>
  /\ served = <<>>
  /\ users = <<>>
  /\ clock = Epoch

FindEvolvingPatterns ==
  /\ pc = "call"
  /\ call.fn = "findEvolvingPatterns"
  /\ ret' = findEvolvingPatterns(call.currentDream, call.dreamHistory)
  /\ pc' = "done"
  /\ UNCHANGED <<call, ran, db, inflight, served, users, clock>>

NextEvolving == FindEvolvingPatterns

SpecEvolving == InitEvolving /\ [][NextEvolving]_vars

(***************************************************************************)
(* C3: with a history of fewer than 3 entries findEvolvingPatterns returns *)
(* hasEvolvingPatterns = false and the not-enough-history insight alone;   *)
(* the result has no emotionTrends and no sentimentTrends (hence no        *)
(* direction), because no bucketing or trend computation took place.       *)
(***************************************************************************)
EvolvingReturned == pc = "done" /\ call.fn = "findEvolvingPatterns"

C3_ShortHistoryNoTrend ==
  (EvolvingReturned /\ Len(call.dreamHistory) < 3) =>
    /\ ret.hasEvolvingPatterns = FALSE
    /\ ret.insights = <<NotEnoughHistory>>
    /\ DOMAIN ret = {"hasEvolvingPatterns", "insights"}

\* two history entries and the current dream lie in three different months and
\* all carry an emotion and a sentiment: three buckets, but too short a history
C3_Witness ==
  /\ EvolvingReturned
  /\ Len(call.dreamHistory) = 2
  /\ Cardinality({call.dreamHistory[1].date, call.dreamHistory[2].date,
                  call.currentDream.date}) = 3
  /\ \A i \in 1..2 : IsSome(call.dreamHistory[i].emotions)
                     /\ IsSome(call.dreamHistory[i].sentiment)
  /\ IsSome(call.currentDream.sentiment)
  /\ ret.hasEvolvingPatterns = FALSE

(***************************************************************************)
(* JavaScript strings: sequences of UTF-16 code units, each written as a   *)
(* one-character string; "U+0130" is LATIN CAPITAL LETTER I WITH DOT ABOVE *)
(* and "U+0307" COMBINING DOT ABOVE.                                       *)
(***************************************************************************)
RECURSIVE ConcatRange(_, _, _)
ConcatRange(strs, first, last) ==
  IF first > last THEN <<>>
  ELSE IF first = last THEN strs[first]
       ELSE ConcatRange(strs, first, (first + last) \div 2)
            \o ConcatRange(strs, ((first + last) \div 2) + 1, last)

Concat(strs) == ConcatRange(strs, 1, Len(strs))

\* String.prototype.toLowerCase on one code unit: U+0130 becomes two code units
LowerOf(c) ==
  CASE c = "W" -> <<"w">>
    [] c = "U+0130" -> <<"i", "U+0307">>
    [] OTHER -> <<c>>

toLowerCase(str) == Concat(Map(str, LowerOf))

IsWhitespace(c) == c \in {" ", "\n"}

\* str.trim() === ''
trimIsEmpty(str) == \A i \in 1..Len(str) : IsWhitespace(str[i])

\* String.prototype.indexOf, 0-based, -1 when absent
indexOf(str, sub) ==
  LET hits == {i \in 0..(Len(str) - Len(sub)) : SubSeq(str, i + 1, i + Len(sub)) = sub}
  IN IF hits = {} THEN -1 ELSE MinOf(hits)

includes(str, sub) == indexOf(str, sub) >= 0

Clamp(i, len) == Max(0, Min(i, len))

\* String.prototype.substring: both indices clamped to [0, length], swapped if needed
substring(str, start, end) ==
  SubSeq(str, Min(Clamp(start, Len(str)), Clamp(end, Len(str))) + 1,
         Max(Clamp(start, Len(str)), Clamp(end, Len(str))))

\* natural.WordTokenizer: split on /[^A-Za-z0-9_]+/ and drop the empty pieces
IsWordChar(c) == c \notin {" ", "\n", ".", "U+0130", "U+0307"}

\* the positions where a run of word characters starts, and where that run ends
tokenStarts(str) ==
  {i \in 1..Len(str) : IsWordChar(str[i]) /\ (i = 1 \/ ~IsWordChar(str[i - 1]))}

tokenEnd(str, start) ==
  MinOf({j \in start..Len(str) : j = Len(str) \/ ~IsWordChar(str[j + 1])})

tokensFrom(str, starts) ==
  [k \in 1..Cardinality(starts) |->
     SubSeq(str, Nth(starts, k), tokenEnd(str, Nth(starts, k)))]

tokenize(str) == tokensFrom(str, tokenStarts(str))

(***************************************************************************)
(* The words of the model and the lexicons restricted to them              *)
(***************************************************************************)
WordWater == <<"w", "a", "t", "e", "r">>
WordWaterCapital == <<"W", "a", "t", "e", "r">>
WordDog == <<"d", "o", "g">>
WordDogs == <<"d", "o", "g", "s">>
WordHappy == <<"h", "a", "p", "p", "y">>
WordFear == <<"f", "e", "a", "r">>
WordStrange == <<"s", "t", "r", "a", "n", "g", "e">>
WordAbout == <<"a", "b", "o", "u", "t">>
WordQuest == <<"q", "u", "e", "s", "t">>
WordMagic == <<"m", "a", "g", "i", "c">>
WordLucid == <<"l", "u", "c", "i", "d">>
Word2024 == <<"2", "0", "2", "4">>

\* the stopwords array, the same in extractKeywords and extractKeywordsTfIdf
stopwords == {WordAbout}

emotionWords ==
  [positive |-> {WordHappy}, negative |-> {WordFear}, neutral |-> {WordStrange}]

\* the keys of the dreamSymbols object in Object.keys order, and their meanings
dreamSymbolKeys == <<WordWater, WordDog>>

dreamSymbolMeaning(symbol) ==
  IF symbol = WordWater
  THEN "Often relates to emotions, the unconscious mind, or purification"
  ELSE "Often represents loyalty, friendship, or protection"

IsDreamSymbol(token) == Includes(dreamSymbolKeys, token)

\* the AFINN polarity of a token as natural's SentimentAnalyzer looks it up
afinn(token) ==
  IF toLowerCase(token) = WordHappy THEN 3
  ELSE IF toLowerCase(token) = WordFear THEN -2 ELSE 0

(***************************************************************************)
(* utils/dreamAnalyzer: extractKeywordsTfIdf and the frequency-mode        *)
(* extractKeywords of the basic analyser                                   *)
(***************************************************************************)
MaxTfIdfKeywords == 15
MaxFrequencyKeywords == 10
MinKeywordLength == 3

IsDigit(c) == Includes(DigitChar, c)

\* an own property key that is an array index: an integer in canonical form
IsIndexKey(token) ==
  /\ \A i \in 1..Len(token) : IsDigit(token[i])
  /\ (Len(token) = 1 \/ token[1] # "0")

NumberOf(token) ==
  LET N[i \in 0..Len(token)] ==
        IF i = 0 THEN 0 ELSE 10 * N[i - 1] + (CharCode(token[i]) - 48)
  IN N[Len(token)]

\* the own keys of an object the tokens were inserted in one by one: the index
\* keys in ascending order, then the other keys in insertion order
keysInObjectOrder(distinct) ==
  Sort(Filter(distinct, IsIndexKey), LAMBDA a, b : NumberOf(a) < NumberOf(b))
  \o Filter(distinct, LAMBDA t : ~IsIndexKey(t))

ObjectKeys(tokens) == keysInObjectOrder(DistinctInOrder(tokens))

\* Object.entries of the frequency object: [term, count] in key order
termCounts(tokens) ==
  Map(ObjectKeys(tokens), LAMBDA t : [term |-> t, count |-> CountOf(tokens, t)])

ByCountDescending(a, b) == b.count < a.count

\* isNaN(parseFloat(term)) for a token of word characters
parseFloatIsNaN(term) == ~IsDigit(term[1])

\* natural.TfIdf for a single document: listTerms(0) gives every distinct term of
\* the lowercased text once, by descending tf-idf; with one document the idf is
\* the same positive number for every term, so the order is that of the counts;
\* the stop words natural drops itself are all in the stopwords array below
listTerms(text) == Sort(termCounts(tokenize(toLowerCase(text))), ByCountDescending)

\* mutant: the length test is missing from the filter
extractKeywordsTfIdfNoLength(text) ==
  Map(Slice(Sort(Filter(listTerms(text),
                        LAMBDA item : /\ item.term \notin stopwords
                                      /\ parseFloatIsNaN(item.term)),
                 ByCountDescending),
            0, MaxTfIdfKeywords),
      LAMBDA item : item.term)

extractKeywordsTfIdf(text) ==
  Map(Slice(Sort(Filter(listTerms(text),
                        LAMBDA item : /\ item.term \notin stopwords
                                      /\ Len(item.term) > MinKeywordLength
                                      /\ parseFloatIsNaN(item.term)),
                 ByCountDescending),
            0, MaxTfIdfKeywords),
      LAMBDA item : item.term)

extractKeywords(tokens) ==
  Map(Slice(Sort(termCounts(Filter(tokens,
                                   LAMBDA token : /\ token \notin stopwords
                                                  /\ Len(token) > MinKeywordLength)),
                 ByCountDescending),
            0, MaxFrequencyKeywords),
      LAMBDA entry : entry.term)

(***************************************************************************)
(* utils/dreamAnalyzer: analyzeEmotions                                    *)
(***************************************************************************)
emotionType(token) ==
  IF token \in emotionWords.positive THEN "positive"
  ELSE IF token \in emotionWords.negative THEN "negative"
  ELSE IF token \in emotionWords.neutral THEN "neutral" ELSE "none"

emotionCount(tokens, type) ==
  Cardinality({i \in 1..Len(tokens) : emotionType(tokens[i]) = type})

\* Array.prototype.indexOf, 0-based
arrayIndexOf(arr, x) == MinOf({i \in 1..Len(arr) : arr[i] = x}) - 1

emotionInstances(tokens) ==
  Map(Filter(tokens, LAMBDA token : emotionType(token) # "none"),
      LAMBDA token : [word |-> token, type |-> emotionType(token),
                      position |-> arrayIndexOf(tokens, token)])

Percentage(count, totalEmotionWords) ==
  IF totalEmotionWords # 0 THEN Rat(count * 100, totalEmotionWords) ELSE Zero

emotionBreakdown(positive, negative, neutral) ==
  [positive |-> Percentage(positive, positive + negative + neutral),
   negative |-> Percentage(negative, positive + negative + neutral),
   neutral |-> Percentage(neutral, positive + negative + neutral)]

primaryEmotion(breakdown) ==
  IF RatLt(breakdown.negative, breakdown.positive)
     /\ RatLt(breakdown.neutral, breakdown.positive)
  THEN "positive"
  ELSE IF RatLt(breakdown.positive, breakdown.negative)
          /\ RatLt(breakdown.neutral, breakdown.negative)
       THEN "negative" ELSE "neutral"

emotionsOf(breakdown, instances) ==
  [primary |-> primaryEmotion(breakdown),
   score |-> breakdown[primaryEmotion(breakdown)],
   breakdown |-> breakdown,
   instances |-> instances]

analyzeEmotions(tokens) ==
  emotionsOf(emotionBreakdown(emotionCount(tokens, "positive"),
                              emotionCount(tokens, "negative"),
                              emotionCount(tokens, "neutral")),
             emotionInstances(tokens))

\* the basic analyser's analyzeEmotions keeps no instances
emotionsOfBasic(breakdown) ==
  [primary |-> primaryEmotion(breakdown),
   score |-> breakdown[primaryEmotion(breakdown)],
   breakdown |-> breakdown]

analyzeEmotionsBasic(tokens) ==
  emotionsOfBasic(emotionBreakdown(emotionCount(tokens, "positive"),
                                   emotionCount(tokens, "negative"),
                                   emotionCount(tokens, "neutral")))

(***************************************************************************)
(* utils/dreamAnalyzer: analyzeSentiment                                   *)
(***************************************************************************)
NaN == [n |-> 0, d |-> 0]

\* natural's SentimentAnalyzer.getSentiment: the sum of the polarities of the
\* words divided by the number of words (0 / 0 for no word)
getSentiment(words) ==
  IF Len(words) = 0 THEN NaN
  ELSE Rat(Sum(Map(words, LAMBDA w : Rat(afinn(w), 1))).n, Len(words))

sentimentVote(comparative) ==
  IF RatLt(Rat(5, 100), comparative) THEN "positive"
  ELSE IF RatLt(comparative, Rat(-5, 100)) THEN "negative" ELSE "neutral"

sentimentOf(score, comparative) ==
  [score |-> score, comparative |-> comparative, vote |-> sentimentVote(comparative)]

sentimentOfTokens(tokenized, score) ==
  sentimentOf(score,
              IF Len(tokenized) > 0 THEN RatDiv(score, Rat(Len(tokenized), 1)) ELSE Zero)

analyzeSentiment(content) ==
  sentimentOfTokens(tokenize(content), getSentiment(tokenize(content)))

(***************************************************************************)
(* utils/dreamAnalyzer: findSymbols and getSymbolContext                    *)
(***************************************************************************)
ContextRadius == 50
Ellipsis == <<".", ".", ".">>

\* the window around symbolIndex: endLength is the length endIndex is clamped to
contextWindow(content, symbolIndex, symbolLength, endLength) ==
  (IF Max(0, symbolIndex - ContextRadius) > 0 THEN Ellipsis ELSE <<>>)
  \o substring(content, Max(0, symbolIndex - ContextRadius),
               Min(endLength, symbolIndex + symbolLength + ContextRadius))
  \o (IF Min(endLength, symbolIndex + symbolLength + ContextRadius) < Len(content)
      THEN Ellipsis ELSE <<>>)

getSymbolContext(symbol, content) ==
  IF indexOf(toLowerCase(content), symbol) = -1 THEN <<>>
  ELSE contextWindow(content, indexOf(toLowerCase(content), symbol), Len(symbol),
                     Len(toLowerCase(content)))

symbolRecord(symbol, content) ==
  [symbol |-> symbol, meaning |-> dreamSymbolMeaning(symbol),
   context |-> getSymbolContext(symbol, content)]

\* the first loop: the unique tokens that are keys of dreamSymbols
exactMatches(tokens, content) ==
  Map(Filter(DistinctInOrder(tokens), IsDreamSymbol),
      LAMBDA token : symbolRecord(token, content))

HasSymbol(foundSymbols, symbol) ==
  \E i \in 1..Len(foundSymbols) : foundSymbols[i].symbol = symbol

\* mutant: the second loop does not skip the symbols already found
findSymbolsNoSkip(tokens, content) ==
  LET F[i \in 0..Len(dreamSymbolKeys)] ==
        IF i = 0 THEN exactMatches(tokens, content)
        ELSE IF includes(toLowerCase(content), dreamSymbolKeys[i])
             THEN Append(F[i - 1], symbolRecord(dreamSymbolKeys[i], content))
             ELSE F[i - 1]
  IN F[Len(dreamSymbolKeys)]

findSymbols(tokens, content) ==
  LET F[i \in 0..Len(dreamSymbolKeys)] ==
        IF i = 0 THEN exactMatches(tokens, content)
        ELSE IF /\ ~HasSymbol(F[i - 1], dreamSymbolKeys[i])
                /\ includes(toLowerCase(content), dreamSymbolKeys[i])
             THEN Append(F[i - 1], symbolRecord(dreamSymbolKeys[i], content))
             ELSE F[i - 1]
  IN F[Len(dreamSymbolKeys)]

\* findSymbols of the basic analyser: exact matches only, no context
findSymbolsBasic(tokens) ==
  Map(Filter(DistinctInOrder(tokens), IsDreamSymbol),
      LAMBDA token : [symbol |-> token, meaning |-> dreamSymbolMeaning(token)])

(***************************************************************************)
(* utils/advancedNLP: findDreamSymbols                                      *)
(***************************************************************************)
\* countOccurrences(...) is an object, whose length is undefined: the frequency
\* is undefined - 1; the adjectives and verbs compromise supplies are left out
dreamSymbolRecord(symbol, text) ==
  [symbol |-> symbol, meaning |-> dreamSymbolMeaning(symbol),
   context |-> contextWindow(text, indexOf(toLowerCase(text), symbol), Len(symbol),
                             Len(text)),
   frequency |-> NaN]

\* text is None for undefined; symbolDictionary is the sequence of the keys of
\* the dictionary in Object.entries order, None for a missing dictionary
findDreamSymbols(text, symbolDictionary) ==
  IF ~IsSome(text) \/ Val(text) = <<>> \/ ~IsSome(symbolDictionary) THEN <<>>
  ELSE Map(Filter(Val(symbolDictionary),
                  LAMBDA symbol : includes(toLowerCase(Val(text)), symbol)),
           LAMBDA symbol : dreamSymbolRecord(symbol, Val(text)))

(***************************************************************************)
(* utils/dreamAnalyzer: analyzeDream; utils/advancedNLP: analyzeText        *)
(* A call ends in a returned value or a thrown error; calls names the      *)
(* components the call ran.  The content is None for undefined.            *)
(***************************************************************************)
Returned(value, calls) == [threw |-> FALSE, value |-> value, calls |-> calls]
Thrown(error, calls) == [threw |-> TRUE, error |-> error, calls |-> calls]

\* the result of the empty-content branch of analyzeDream
minimalAnalysis ==
  [keywords |-> <<>>,
   emotions |-> [primary |-> "neutral", score |-> Zero,
                 breakdown |-> [positive |-> Zero, negative |-> Zero,
                                neutral |-> Rat(100, 1)]],
   symbols |-> <<>>,
   sentiment |-> [score |-> Zero, comparative |-> Zero, vote |-> "neutral"]]

AnalyzeDreamCalls ==
  {"tokenizer.tokenize", "extractKeywordsTfIdf", "analyzeEmotions", "findSymbols",
   "analyzeSentiment"}

fullAnalysis(dreamContent) ==
  [keywords |-> extractKeywordsTfIdf(dreamContent),
   emotions |-> analyzeEmotions(tokenize(toLowerCase(dreamContent))),
   symbols |-> findSymbols(tokenize(toLowerCase(dreamContent)), dreamContent),
   sentiment |-> analyzeSentiment(dreamContent)]

\* mutant: the guard does not trim
analyzeDreamNoTrim(dreamContent) ==
  IF ~IsSome(dreamContent) THEN Thrown("TypeError", {})
  ELSE IF Val(dreamContent) = <<>>
       THEN Returned(minimalAnalysis, {})
       ELSE Returned(fullAnalysis(Val(dreamContent)), AnalyzeDreamCalls)

\* dreamContent.substring(0, 50) in the first statement throws on undefined,
\* before the guard is reached
analyzeDream(dreamContent) ==
  IF ~IsSome(dreamContent) THEN Thrown("TypeError", {})
  ELSE IF Val(dreamContent) = <<>> \/ trimIsEmpty(Val(dreamContent))
       THEN Returned(minimalAnalysis, {})
       ELSE Returned(fullAnalysis(Val(dreamContent)), AnalyzeDreamCalls)

AnalyzeDreamBasicCalls ==
  {"tokenizer.tokenize", "extractKeywords", "analyzeEmotions", "findSymbols"}

basicAnalysis(dreamContent) ==
  [keywords |-> extractKeywords(tokenize(toLowerCase(dreamContent))),
   emotions |-> analyzeEmotionsBasic(tokenize(toLowerCase(dreamContent))),
   symbols |-> findSymbolsBasic(tokenize(toLowerCase(dreamContent)))]

\* analyzeDream of the basic analyser, which has no guard
analyzeDreamBasic(dreamContent) ==
  IF ~IsSome(dreamContent) THEN Thrown("TypeError", {})
  ELSE Returned(basicAnalysis(Val(dreamContent)), AnalyzeDreamBasicCalls)

\* the result of the empty-text branch of analyzeText
emptyTextAnalysis ==
  [entities |-> <<>>, topics |-> <<>>, phrases |-> <<>>, sentences |-> <<>>,
   sentiment |-> [score |-> Zero, comparative |-> Zero, vote |-> "neutral"],
   keywords |-> <<>>]

AnalyzeTextCalls ==
  {"nlp", "extractEntities", "extractTopics", "extractPhrases", "analyzeSentences",
   "analyzeSentiment", "extractKeywordsTfIdf"}

\* doc holds what extractEntities, extractTopics, extractPhrases and
\* analyzeSentences read from the compromise document of the text
textAnalysis(text, doc) ==
  [entities |-> doc.entities, topics |-> doc.topics, phrases |-> doc.phrases,
   sentences |-> doc.sentences,
   sentiment |-> analyzeSentiment(text),
   keywords |-> extractKeywordsTfIdf(text)]

analyzeText(text, doc) ==
  IF ~IsSome(text) \/ Val(text) = <<>> THEN Returned(emptyTextAnalysis, {})
  ELSE IF trimIsEmpty(Val(text)) THEN Returned(emptyTextAnalysis, {})
       ELSE Returned(textAnalysis(Val(text), doc), AnalyzeTextCalls)

(***************************************************************************)
(* utils/advancedNLP: analyzeRecurringPatterns                              *)
(***************************************************************************)
\* Object.entries(countOccurrences(array)): one entry for each distinct item, in
\* key order, with the number of its occurrences in the array
countOccurrences(array) ==
  Map(ObjectKeys(array), LAMBDA item : [item |-> item, count |-> CountOf(array, item)])

MinRecurrence == 2

\* filter, map and sort of the entries; item is the theme, entity or phrase
recurringItems(array) ==
  Sort(Filter(countOccurrences(array), LAMBDA entry : entry.count >= MinRecurrence),
       ByCountDescending)

recurringPatternsOf(analyses) ==
  [recurringThemes |->
     recurringItems(Concat(Map(analyses, LAMBDA a : a.keywords))),
   recurringEntities |->
     recurringItems(Concat(Map(analyses,
                               LAMBDA a : Map(a.entities, LAMBDA e : e.text)))),
   recurringPhrases |->
     recurringItems(Concat(Map(analyses,
                               LAMBDA a : Map(a.phrases, LAMBDA ph : ph.text))))]

\* dreams is None or Some(list of [content, doc]), doc being what compromise
\* reads of the content
analyzeRecurringPatterns(dreams) ==
  IF ~IsSome(dreams) \/ Len(Val(dreams)) = 0
  THEN [recurringThemes |-> <<>>, recurringSymbols |-> <<>>, recurringEntities |-> <<>>]
  ELSE recurringPatternsOf(Map(Val(dreams),
                               LAMBDA dream : analyzeText(dream.content, dream.doc).value))

(***************************************************************************)
(* utils/advancedNLP: suggestDreamCategories                               *)
(***************************************************************************)
ValidCategories ==
  {"lucid", "nightmare", "recurring", "prophetic", "healing", "adventure", "fantasy",
   "uncategorized"}

\* the word lists of the rules, restricted to the words of the model
adventureWords == {WordQuest}
fantasyWords == {WordMagic}
lucidWords == {WordLucid}
\* 'I knew', the first of the phrases that mark a lucid dream
lucidPhrases == {<<"I", " ", "k", "n", "e", "w">>}

hasTheme(analysis, words) ==
  \/ \E i \in 1..Len(analysis.keywords) : analysis.keywords[i] \in words
  \/ \E i \in 1..Len(analysis.phrases) :
       \E word \in words : includes(analysis.phrases[i].text, word)

hasLucidTheme(analysis) ==
  \/ \E i \in 1..Len(analysis.keywords) : analysis.keywords[i] \in lucidWords
  \/ \E i \in 1..Len(analysis.phrases) :
       \E phrase \in lucidPhrases : includes(analysis.phrases[i].text, phrase)

Candidate(category, confidence) == [category |-> category, confidence |-> confidence]

\* mutant: the threshold itself fires the rule
nightmareCandidatesInclusive(sentiment) ==
  IF sentiment.vote = "negative" /\ RatLeq(sentiment.comparative, Rat(-15, 100))
  THEN <<Candidate("nightmare",
                   RatMin(Rat(90, 1), RatMul(RatAbs(sentiment.comparative), Rat(300, 1))))>>
  ELSE <<>>

nightmareCandidates(sentiment) ==
  IF sentiment.vote = "negative" /\ RatLt(sentiment.comparative, Rat(-15, 100))
  THEN <<Candidate("nightmare",
                   RatMin(Rat(90, 1), RatMul(RatAbs(sentiment.comparative), Rat(300, 1))))>>
  ELSE <<>>

themeCandidates(analysis, words, category, confidence) ==
  IF hasTheme(analysis, words) THEN <<Candidate(category, Rat(confidence, 1))>> ELSE <<>>

firingCandidates(analysis) ==
  nightmareCandidates(analysis.sentiment)
  \o themeCandidates(analysis, adventureWords, "adventure", 75)
  \o themeCandidates(analysis, fantasyWords, "fantasy", 80)
  \o (IF hasLucidTheme(analysis) THEN <<Candidate("lucid", Rat(85, 1))>> ELSE <<>>)

defaultCandidates(sentiment) ==
  IF sentiment.vote = "positive" THEN <<Candidate("healing", Rat(50, 1))>>
  ELSE <<Candidate("uncategorized", Rat(30, 1))>>

\* mutant: the candidates are filtered but left in the order of the rules
rankCandidatesUnsorted(suggestedCategories) ==
  Filter(suggestedCategories, LAMBDA cat : cat.category \in ValidCategories)

rankCandidates(suggestedCategories) ==
  Sort(Filter(suggestedCategories, LAMBDA cat : cat.category \in ValidCategories),
       LAMBDA a, b : RatLt(b.confidence, a.confidence))

suggestDreamCategories(analysis) ==
  rankCandidates(IF firingCandidates(analysis) = <<>>
                 THEN defaultCandidates(analysis.sentiment)
                 ELSE firingCandidates(analysis))

\* the function as a caller sees it: analysis is None for a missing analysis
suggestDreamCategoriesOf(analysis) ==
  IF ~IsSome(analysis) THEN <<Candidate("uncategorized", Rat(50, 1))>>
  ELSE suggestDreamCategories(Val(analysis))

(***************************************************************************)
(* utils/dreamAnalyzer: suggestDreamCategories                             *)
(***************************************************************************)
WordMountain == <<"m", "o", "u", "n", "t", "a", "i", "n">>

\* the word lists of the rules, restricted to the words of the model
adventureKeywords == {WordQuest}
adventureSymbols == {WordMountain}
fantasyKeywords == {WordMagic}

NightmareScore == 70

hasKeyword(keywords, words) == \E i \in 1..Len(keywords) : keywords[i] \in words

analyzerNightmare(emotions) ==
  IF emotions.primary = "negative" /\ RatLt(Rat(NightmareScore, 1), emotions.score)
  THEN <<Candidate("nightmare", RatMin(Rat(90, 1), emotions.score))>>
  ELSE <<>>

analyzerAdventure(keywords, symbols) ==
  IF \/ hasKeyword(keywords, adventureKeywords)
     \/ \E i \in 1..Len(symbols) : symbols[i].symbol \in adventureSymbols
  THEN <<Candidate("adventure", Rat(75, 1))>>
  ELSE <<>>

analyzerFantasy(keywords) ==
  IF hasKeyword(keywords, fantasyKeywords) THEN <<Candidate("fantasy", Rat(80, 1))>>
  ELSE <<>>

analyzerFiring(analysis) ==
  analyzerNightmare(analysis.emotions)
  \o analyzerAdventure(analysis.keywords, analysis.symbols)
  \o analyzerFantasy(analysis.keywords)

analyzerDefault(emotions) ==
  IF emotions.primary = "positive" THEN <<Candidate("healing", Rat(50, 1))>>
  ELSE <<Candidate("uncategorized", Rat(30, 1))>>

analyzerCandidates(analysis) ==
  IF analyzerFiring(analysis) = <<>> THEN analyzerDefault(analysis.emotions)
  ELSE analyzerFiring(analysis)

\* mutant: the candidates are returned in the order of the rules
analyzerRankUnsorted(suggestedCategories) == suggestedCategories

analyzerRank(suggestedCategories) ==
  Sort(suggestedCategories, LAMBDA a, b : RatLt(b.confidence, a.confidence))

suggestDreamCategoriesAnalyzer(analysis) == analyzerRank(analyzerCandidates(analysis))

(***************************************************************************)
(* controllers/dream.controller: createDream                                *)
(* The request carries a title and possibly a content and a category; the   *)
(* store either accepts the new dream or rejects it.                        *)
(***************************************************************************)
finalCategoryOf(category, suggestedCategories) ==
  IF IsSome(category) THEN Val(category)
  ELSE IF Len(suggestedCategories) > 0 THEN suggestedCategories[1].category
       ELSE "uncategorized"

\* String.prototype.trim, as the schema applies it to content
trim(str) ==
  IF trimIsEmpty(str) THEN <<>>
  ELSE SubSeq(str, MinOf({i \in 1..Len(str) : ~IsWhitespace(str[i])}),
              CHOOSE last \in 1..Len(str) :
                /\ ~IsWhitespace(str[last])
                /\ \A i \in (last + 1)..Len(str) : IsWhitespace(str[i]))

\* the paths of the dream schema
SchemaPaths ==
  {"user", "title", "content", "date", "tags", "category", "keywords", "emotions",
   "symbols", "notes", "isPrivate", "sharing"}

NoFields == [path \in {} |-> path]

\* what the model keeps of an object it is given: the schema is strict, a path
\* it does not declare is not saved; content is trimmed
castToSchema(fields) ==
  [path \in (DOMAIN fields) \cap SchemaPaths |->
     IF path = "content" THEN trim(fields[path]) ELSE fields[path]]

\* the defaults of the schema for sharing
DefaultSharing == [isShared |-> FALSE, sharedAt |-> None, viewCount |-> 0]

\* new Date() at the time of the request
Now == Some("now")

\* the pre-save hook: a document whose isPrivate was modified and is false is
\* marked as shared
preSave(dream, isPrivateModified) ==
  IF isPrivateModified /\ dream.isPrivate = FALSE
  THEN [dream EXCEPT !.sharing = [isShared |-> TRUE, sharedAt |-> Now,
                                  viewCount |-> dream.sharing.viewCount]]
  ELSE dream

\* save() of a new document: every path the constructor was given counts as
\* modified, the paths it was not given take their defaults
saveNew(fields) == preSave([sharing |-> DefaultSharing] @@ castToSchema(fields), TRUE)

\* the object handed to new Dream(...); isPrivate is None when the body has none
newDream(content, category, basic, advanced, symbols, isPrivate) ==
  [content |-> content,
   isPrivate |-> IF IsSome(isPrivate) THEN Val(isPrivate) ELSE TRUE,
   category |-> finalCategoryOf(category, suggestDreamCategories(advanced)),
   keywords |-> advanced.keywords,
   emotions |-> basic.emotions,
   symbols |-> IF Len(symbols) > 0 THEN symbols ELSE basic.symbols,
   entities |-> advanced.entities,
   topics |-> advanced.topics,
   sentiment |-> advanced.sentiment]

\* the schema requires a content that is not empty once trimmed
validates(content) == ~trimIsEmpty(content)

ServerError(step) == [status |-> 500, failedIn |-> step]

\* every error, whichever statement throws it, reaches the one catch clause
createDreamAnalysed(content, category, basic, advanced, symbols, isPrivate, storeAccepts) ==
  IF validates(content) /\ storeAccepts
  THEN [status |-> 201,
        dream |-> saveNew(newDream(content, category, basic, advanced, symbols,
                                   isPrivate))]
  ELSE ServerError("save")

createDream(content, category, isPrivate, doc, symbolDictionary, storeAccepts) ==
  IF analyzeDream(content).threw THEN ServerError("analysis")
  ELSE createDreamAnalysed(Val(content), category, analyzeDream(content).value,
                           analyzeText(content, doc).value,
                           findDreamSymbols(content, symbolDictionary), isPrivate,
                           storeAccepts)

(***************************************************************************)
(* controllers/dream.controller: updateDream                               *)
(* dream is the stored document, content and category are None when the     *)
(* body does not carry them.  title, date, tags and notes are copied as     *)
(* they come and are left out.                                              *)
(***************************************************************************)
\* content && content !== dream.content
contentChanged(content, dream) ==
  IsSome(content) /\ Val(content) # <<>> /\ Val(content) # dream.content

\* the analysis results of updateFields; advancedAnalysis.symbols is an array,
\* which is truthy even when empty
reanalysedFields(basic, advanced, symbols) ==
  [keywords |-> advanced.keywords,
   emotions |-> basic.emotions,
   symbols |-> symbols,
   entities |-> advanced.entities,
   topics |-> advanced.topics,
   sentiment |-> advanced.sentiment]

contentFields(content, dream, doc, symbolDictionary) ==
  IF ~IsSome(content) \/ Val(content) = <<>> THEN NoFields
  ELSE [content |-> Val(content)] @@
       (IF contentChanged(content, dream)
        THEN reanalysedFields(analyzeDream(content).value,
                              analyzeText(content, doc).value,
                              findDreamSymbols(content, symbolDictionary))
        ELSE NoFields)

categoryFields(content, category, dream, suggestedCategories) ==
  IF IsSome(category) THEN [category |-> Val(category)]
  ELSE IF contentChanged(content, dream) /\ Len(suggestedCategories) > 0
       THEN [category |-> suggestedCategories[1].category]
       ELSE NoFields

\* if (isPrivate !== undefined) updateFields.isPrivate = isPrivate
privacyFields(isPrivate) ==
  IF IsSome(isPrivate) THEN [isPrivate |-> Val(isPrivate)] ELSE NoFields

updateFields(content, category, isPrivate, dream, doc, symbolDictionary) ==
  contentFields(content, dream, doc, symbolDictionary) @@
  privacyFields(isPrivate) @@
  categoryFields(content, category, dream,
                 suggestDreamCategories(analyzeText(content, doc).value))

\* findByIdAndUpdate(id, {$set: fields}, {new: true}): an update of the stored
\* document that runs no save hook
findByIdAndUpdate(dream, fields) == castToSchema(fields) @@ dream

\* dreams is the collection, id a position in it or beyond it
updateDream(dreams, id, userId, content, category, isPrivate, doc, symbolDictionary) ==
  IF id \notin DOMAIN dreams THEN [status |-> 404]
  ELSE IF dreams[id].user # userId THEN [status |-> 403]
       ELSE [status |-> 200,
             dream |-> findByIdAndUpdate(dreams[id],
                         updateFields(content, category, isPrivate, dreams[id], doc,
                                      symbolDictionary))]

(***************************************************************************)
(* routes/dream.routes: PUT /api/dreams/:id                                *)
(* userId is None when the request has no x-mock-user-id header.            *)
(***************************************************************************)
dreamData(content, dream) ==
  [content |-> IF IsSome(content) /\ Val(content) # <<>> THEN Val(content)
               ELSE dream.content] @@
  (IF contentChanged(content, dream)
   THEN [keywords |-> analyzeDream(content).value.keywords,
         emotions |-> analyzeDream(content).value.emotions,
         symbols |-> analyzeDream(content).value.symbols]
   ELSE NoFields)

putDream(dreams, id, userId, content) ==
  IF ~IsSome(userId) THEN [status |-> 401]
  ELSE IF id \notin DOMAIN dreams THEN [status |-> 404]
       ELSE IF dreams[id].user # Val(userId) THEN [status |-> 401]
            ELSE [status |-> 200,
                  dream |-> findByIdAndUpdate(dreams[id], dreamData(content, dreams[id]))]

(***************************************************************************)
(* controllers/dream.controller: generateDreamInsights and its steps       *)
(* The sentences of the insights are named by short labels.                 *)
(***************************************************************************)
emotionFrequency(dreamHistory, primary) ==
  Cardinality({i \in 1..Len(dreamHistory) : dreamHistory[i].emotions.primary = primary})

\* more than 30% of the dreams of the history
analyzeEmotionalPatterns(currentDream, dreamHistory) ==
  [currentPrimaryEmotion |-> currentDream.emotions.primary,
   isRecurringEmotion |->
     10 * emotionFrequency(dreamHistory, currentDream.emotions.primary)
       > 3 * Len(dreamHistory)]

\* historicalSymbols[symbol]: the records of the history that name the symbol
historicalSymbols(dreamHistory, symbol) ==
  CountOf(Map(Concat(Map(dreamHistory, LAMBDA dream : dream.symbols)),
              LAMBDA s : s.symbol),
          symbol)

\* s.interpretation || ''
interpretationOf(record) ==
  IF "interpretation" \in DOMAIN record THEN record.interpretation ELSE ""

recurringSymbols(currentDream, dreamHistory) ==
  Map(Filter(currentDream.symbols,
             LAMBDA s : historicalSymbols(dreamHistory, s.symbol) > 1),
      LAMBDA s : [symbol |-> s.symbol,
                  frequency |-> historicalSymbols(dreamHistory, s.symbol),
                  interpretation |->
                    interpretationOf(currentDream.symbols[
                      MinOf({i \in 1..Len(currentDream.symbols) :
                               currentDream.symbols[i].symbol = s.symbol})])])

\* namedSymbol is the symbol the sentence of symbolInsight tells to pay special
\* attention to, as the one that appears most frequently
symbolicConnectionsOf(currentSymbols, recurring) ==
  [symbolsInCurrentDream |-> Map(currentSymbols, LAMBDA s : s.symbol),
   recurringSymbols |-> recurring,
   namedSymbol |-> IF Len(recurring) > 0 THEN Some(recurring[1].symbol) ELSE None]

analyzeSymbolicConnections(currentDream, dreamHistory) ==
  symbolicConnectionsOf(currentDream.symbols, recurringSymbols(currentDream, dreamHistory))

keywordDreams(dreamHistory, keyword) ==
  CountOf(Concat(Map(dreamHistory, LAMBDA dream : dream.keywords)), keyword)

findRecurringThemes(currentDream, dreamHistory) ==
  Sort(Map(Filter(currentDream.keywords,
                  LAMBDA keyword : keywordDreams(dreamHistory, keyword) > 1),
           LAMBDA keyword : [theme |-> keyword,
                             frequency |-> keywordDreams(dreamHistory, keyword)]),
       LAMBDA a, b : b.frequency < a.frequency)

emotionInsightLabel(primary) ==
  IF primary \in {"fear", "anxiety"} THEN <<"anxiety">>
  ELSE IF primary \in {"joy", "excitement"} THEN <<"fulfillment">>
  ELSE IF primary \in {"sadness", "grief"} THEN <<"melancholy">>
  ELSE IF primary \in {"anger", "frustration"} THEN <<"frustration">>
  ELSE IF primary = "confusion" THEN <<"confusion">> ELSE <<>>

sentimentInsightLabel(dream) ==
  IF "sentiment" \notin DOMAIN dream THEN <<>>
  ELSE IF RatLt(dream.sentiment.score, Rat(-1, 2)) THEN <<"strongly negative">>
  ELSE IF RatLt(Rat(1, 2), dream.sentiment.score) THEN <<"positive nature">>
  ELSE <<"mixed tone">>

categoryInsightLabel(dream) ==
  IF "category" \notin DOMAIN dream THEN <<>>
  ELSE IF dream.category \in {"nightmare", "lucid", "recurring"} THEN <<dream.category>>
  ELSE <<>>

generatePsychologicalInsights(dream, symbolicConnections) ==
  emotionInsightLabel(dream.emotions.primary)
  \o (IF Len(symbolicConnections.recurringSymbols) > 0 THEN <<"recurring symbol">>
      ELSE <<>>)
  \o sentimentInsightLabel(dream)
  \o categoryInsightLabel(dream)

wakingLifeSuggestions(dream) ==
  <<"recent events">>
  \o (IF "category" \in DOMAIN dream /\ dream.category = "nightmare" THEN <<"stress">>
      ELSE IF "category" \in DOMAIN dream /\ dream.category = "adventure"
           THEN <<"excitement">> ELSE <<>>)
  \o (IF "sentiment" \notin DOMAIN dream THEN <<>>
      ELSE IF RatLt(dream.sentiment.score, Zero) THEN <<"negative tone">>
      ELSE IF RatLt(Zero, dream.sentiment.score) THEN <<"positive elements">>
      ELSE <<>>)

\* mainSymbol.interpretation.toLowerCase() throws when the first record has no
\* interpretation
suggestWakingLifeConnections(dream) ==
  IF Len(dream.symbols) > 0
  THEN IF "interpretation" \in DOMAIN dream.symbols[1]
       THEN Returned(Append(wakingLifeSuggestions(dream),
                            <<dream.symbols[1].symbol,
                              toLowerCase(dream.symbols[1].interpretation)>>), {})
       ELSE Thrown("TypeError", {})
  ELSE Returned(wakingLifeSuggestions(dream), {})

\* the other dreams of the user
dreamHistoryOf(dreams, id) ==
  AtPositions(dreams, {i \in DOMAIN dreams : i # id /\ dreams[i].user = dreams[id].user})

\* the date a dream gets when the request names none
StoredDate == Date(2024, 1)

\* a stored dream as the pattern-comparison utilities read it
storedDreamView(dream) ==
  [_id |-> dream._id, date |-> StoredDate,
   emotions |-> Some(dream.emotions.primary),
   symbols |-> Some(dream.symbols),
   keywords |-> Some(dream.keywords),
   sentiment |-> IF "sentiment" \in DOMAIN dream THEN Some(dream.sentiment.score)
                 ELSE None]

MaxRelatedInsights == 5

patternInsights(dream, dreamHistory) ==
  [relatedDreams |->
     Slice(findRelatedDreams(dream, dreamHistory, DefaultSimilarityThreshold),
           0, MaxRelatedInsights),
   evolvingPatterns |-> findEvolvingPatterns(dream, dreamHistory)]

insightsOf(dream, dreamHistory) ==
  [emotionalPatterns |-> analyzeEmotionalPatterns(dream, dreamHistory),
   symbolicConnections |-> analyzeSymbolicConnections(dream, dreamHistory),
   recurringThemes |-> findRecurringThemes(dream, dreamHistory),
   psychologicalInsights |->
     generatePsychologicalInsights(dream, analyzeSymbolicConnections(dream, dreamHistory)),
   wakingLifeConnections |-> suggestWakingLifeConnections(dream).value]
  @@ patternInsights(storedDreamView(dream), Map(dreamHistory, storedDreamView))

\* every error of a step reaches the catch clause
generateDreamInsights(dreams, id, userId) ==
  IF id \notin DOMAIN dreams THEN [status |-> 404]
  ELSE IF dreams[id].user # userId THEN [status |-> 403]
       ELSE IF suggestWakingLifeConnections(dreams[id]).threw
            THEN [status |-> 500, failedIn |-> "suggestWakingLifeConnections"]
            ELSE [status |-> 200,
                  insights |-> insightsOf(dreams[id], dreamHistoryOf(dreams, id))]

\* getDreamById: the owner always, anyone else only when the dream is public
getDreamById(dreams, id, userId) ==
  IF id \notin DOMAIN dreams THEN [status |-> 404]
  ELSE IF dreams[id].user # userId /\ dreams[id].isPrivate THEN [status |-> 403]
       ELSE [status |-> 200, dream |-> dreams[id]]

\* the sharing information shareDream writes
sharedNow == [isShared |-> TRUE, sharedAt |-> Now, viewCount |-> 0]

\* shareDream: the owner's dream is made public and saved
shareDream(dreams, id, userId) ==
  IF id \notin DOMAIN dreams THEN [status |-> 404]
  ELSE IF dreams[id].user # userId THEN [status |-> 403]
       ELSE [status |-> 200,
             dream |-> preSave([isPrivate |-> FALSE, sharing |-> sharedNow] @@ dreams[id],
                               dreams[id].isPrivate # FALSE)]

\* getSharedDream with the check made on the shared mark
getSharedDreamFoundByMark(dreams, id) ==
  IF id \notin DOMAIN dreams THEN [status |-> 404]
  ELSE IF ~dreams[id].sharing.isShared THEN [status |-> 403]
       ELSE [status |-> 200, id |-> id, content |-> dreams[id].content,
             viewCount |-> dreams[id].sharing.viewCount + 1]

\* getSharedDream up to its save(): the document that findById read, with its
\* viewCount incremented in memory
getSharedDreamFound(dreams, id) ==
  IF id \notin DOMAIN dreams THEN [status |-> 404]
  ELSE IF dreams[id].isPrivate THEN [status |-> 403]
       ELSE [status |-> 200, id |-> id, content |-> dreams[id].content,
             viewCount |-> dreams[id].sharing.viewCount + 1]

\* dream.save() of getSharedDream: the one modified path is written
saveViewCount(dream, found) ==
  [dream EXCEPT !.sharing = [isShared |-> dream.sharing.isShared,
                             sharedAt |-> dream.sharing.sharedAt,
                             viewCount |-> found.viewCount]]

\* the answer of getSharedDream
sharedDream(found) ==
  [status |-> 200, content |-> found.content, viewCount |-> found.viewCount]

\* dreamDate > lastDreamDate
InstantLt(a, b) == a.day < b.day \/ (a.day = b.day /\ a.tick < b.tick)

\* the defaults of the user schema for stats
DefaultStats == [totalDreams |-> 0, lastDreamDate |-> None, dreamStreak |-> 0]

\* toDateString() of the date is that of today or of yesterday
isTodayOrYesterday(date, today) == date.day = today.day \/ date.day = today.day - 1

\* this.stats after the assignments of updateDreamStats, before its save()
updateDreamStats(stats, isNewDream, dreamDate, today) ==
  LET totalDreams == IF isNewDream THEN stats.totalDreams + 1 ELSE stats.totalDreams
  IN IF ~IsSome(stats.lastDreamDate) \/ InstantLt(Val(stats.lastDreamDate), dreamDate)
     THEN [totalDreams |-> totalDreams,
           lastDreamDate |-> Some(dreamDate),
           dreamStreak |-> IF isTodayOrYesterday(dreamDate, today)
                           THEN stats.dreamStreak + 1
                           ELSE 1]
     ELSE [totalDreams |-> totalDreams,
           lastDreamDate |-> stats.lastDreamDate,
           dreamStreak |-> stats.dreamStreak]

\* user.save(): the paths whose value differs from the loaded one are written,
\* the others keep what is stored
saveModified(stored, loaded, current) ==
  [path \in DOMAIN stored |->
     IF current[path] # loaded[path] THEN current[path] ELSE stored[path]]

\* date: date || new Date()
dreamDateOf(date, now) == IF IsSome(date) THEN Val(date) ELSE now

\* the slot of a document that findByIdAndDelete removed
Deleted == [deleted |-> TRUE]

storedIds(dreams) == {id \in DOMAIN dreams : dreams[id] # Deleted}

\* deleteDream up to findByIdAndDelete
deleteDream(dreams, id, userId) ==
  IF id \notin storedIds(dreams) THEN [status |-> 404]
  ELSE IF dreams[id].user # userId THEN [status |-> 403]
       ELSE [status |-> 200]

\* the stats deleteDream saves for the user it loaded
deleteDreamStats(stats) ==
  IF stats.totalDreams > 0
  THEN [stats EXCEPT !.totalDreams = @ - 1]
  ELSE stats

(***************************************************************************)
(* The texts handed to the analysers                                       *)
(***************************************************************************)
Vocabulary ==
  {WordWater, WordWaterCapital, WordDog, WordDogs, WordHappy, WordFear, WordStrange,
   WordAbout, Word2024}

Join(words) ==
  LET J[i \in 0..Len(words)] ==
        IF i = 0 THEN <<>>
        ELSE IF i = 1 THEN words[1] ELSE J[i - 1] \o <<" ">> \o words[i]
  IN J[Len(words)]

Repeat(c, n) == [i \in 1..n |-> c]

\* up to MaxWords words separated by single spaces; the empty text is one of them
WordTexts == {Join(words) : words \in SeqsUpTo(Vocabulary, MaxWords)}

BlankTexts == {<<" ">>, <<" ", "\n">>}

\* texts without any token, and the words that fire a category rule
OtherTexts == {<<".">>, WordQuest, WordMagic, WordLucid}

\* a symbol with filler characters before and after it, around the context radius
PadLengths == {ContextRadius - 1, ContextRadius, ContextRadius + 1}

PaddedTexts ==
  {Repeat(c, before) \o symbol \o Repeat(".", after) :
     c \in {".", "U+0130"}, before \in PadLengths,
     symbol \in {WordWater, WordWaterCapital}, after \in {0} \cup PadLengths}

\* more distinct long words than a keyword list may hold
LongWord(i) == <<"k", "e", "y">> \o NumberToString(i)

ManyWordTexts ==
  {Join([i \in 1..n |-> LongWord(i)]) :
     n \in {MaxFrequencyKeywords + 1, MaxTfIdfKeywords + 1}}

Texts == WordTexts \cup BlankTexts \cup OtherTexts \cup PaddedTexts \cup ManyWordTexts

\* req.body.content: a text, or undefined when the body has none
Contents == {None} \cup {Some(text) : text \in Texts}

\* what the extractors read from the compromise document of a text: nothing, or a
\* noun phrase made of one word of the text
NoDoc == [entities |-> <<>>, topics |-> <<>>, phrases |-> <<>>, sentences |-> <<>>]

DocOfPhrase(word) ==
  [entities |-> <<>>, topics |-> <<[topic |-> word, count |-> 1]>>,
   phrases |-> <<[type |-> "noun_phrase", text |-> word]>>, sentences |-> <<>>]

DocsOf(content) ==
  {NoDoc} \cup
  (IF IsSome(content) /\ Len(tokenize(toLowerCase(Val(content)))) > 0
   THEN {DocOfPhrase(tokenize(toLowerCase(Val(content)))[1])} ELSE {})

\* the dictionaries handed to findDreamSymbols: none, or the keys of dreamSymbols
SymbolDictionaries == {None, Some(dreamSymbolKeys)}

Categories == {None, Some("recurring")}

(***************************************************************************)
(* Specification: one call of an analyser, or one createDream request        *)
(***************************************************************************)
InitAnalyze ==
  /\ pc = "call"
  /\ ret = None
  /\ ran = {}
  /\ db = <<>>
  /\ inflight = <<>>
  /\ served = <<>>
  /\ users = <<>>
  /\ clock = Epoch
  /\ \E content \in Contents :
       \/ call = [fn |-> "analyzeDream", content |-> content]
       \/ call = [fn |-> "analyzeDreamBasic", content |-> content]
       \/ \E doc \in DocsOf(content) :
            call = [fn |-> "analyzeText", content |-> content, doc |-> doc]
       \/ \E symbolDictionary \in SymbolDictionaries :
            call = [fn |-> "findDreamSymbols", content |-> content,
                    symbolDictionary |-> symbolDictionary]
       \/ \E category \in Categories, storeAccepts \in BOOLEAN :
            call = [fn |-> "createDream", content |-> content, category |-> category,
                    doc |-> NoDoc, storeAccepts |-> storeAccepts]

AnalyzeDream ==
  /\ pc = "call" /\ call.fn = "analyzeDream"
  /\ ret' = analyzeDream(call.content)
  /\ ran' = analyzeDream(call.content).calls
  /\ pc' = "done"
  /\ UNCHANGED <<call, db, inflight, served, users, clock>>

AnalyzeDreamBasic ==
  /\ pc = "call" /\ call.fn = "analyzeDreamBasic"
  /\ ret' = analyzeDreamBasic(call.content)
  /\ ran' = analyzeDreamBasic(call.content).calls
  /\ pc' = "done"
  /\ UNCHANGED <<call, db, inflight, served, users, clock>>

AnalyzeText ==
  /\ pc = "call" /\ call.fn = "analyzeText"
  /\ ret' = analyzeText(call.content, call.doc)
  /\ ran' = analyzeText(call.content, call.doc).calls
  /\ pc' = "done"
  /\ UNCHANGED <<call, db, inflight, served, users, clock>>

FindDreamSymbols ==
  /\ pc = "call" /\ call.fn = "findDreamSymbols"
  /\ ret' = findDreamSymbols(call.content, call.symbolDictionary)
  /\ pc' = "done"
  /\ UNCHANGED <<call, ran, db, inflight, served, users, clock>>

CreateDream ==
  /\ pc = "call" /\ call.fn = "createDream"
  /\ ret' = createDream(call.content, call.category, None, call.doc,
                        Some(dreamSymbolKeys), call.storeAccepts)
  /\ ran' = analyzeDream(call.content).calls
  /\ pc' = "done"
  /\ UNCHANGED <<call, db, inflight, served, users, clock>>

NextAnalyze ==
  \/ AnalyzeDream
  \/ AnalyzeDreamBasic
  \/ AnalyzeText
  \/ FindDreamSymbols
  \/ CreateDream

SpecAnalyze == InitAnalyze /\ [][NextAnalyze]_vars

(***************************************************************************)
(* Properties of the analysers                                             *)
(***************************************************************************)
Done(fn) == pc = "done" /\ call.fn = fn

\* the call was made on a text and returned
ReturnedOnText(fn) == Done(fn) /\ IsSome(call.content) /\ ~ret.threw

TokensOfCall == tokenize(toLowerCase(Val(call.content)))

HasEmotionWord(tokens) == \E i \in 1..Len(tokens) : emotionType(tokens[i]) # "none"

Hundred == Rat(100, 1)

NeutralBreakdown == [positive |-> Zero, negative |-> Zero, neutral |-> Hundred]

BreakdownSum(breakdown) ==
  RatAdd(RatAdd(breakdown.positive, breakdown.negative), breakdown.neutral)

\* C4: for every text, the emotion breakdown returned by analyzeDream (either
\* analyser) sums to 100, and it is exactly {0, 0, 100} when the text holds no
\* word of the emotion lexicon, whether the text is empty or not.
C4_BreakdownSumsTo100 ==
  ReturnedOnText("analyzeDream") \/ ReturnedOnText("analyzeDreamBasic") =>
    /\ BreakdownSum(ret.value.emotions.breakdown) = Hundred
    /\ ~HasEmotionWord(TokensOfCall) => ret.value.emotions.breakdown = NeutralBreakdown

\* C5: for the empty text analyzeDream returns no keyword and the emotion
\* {primary: neutral, score: 100, breakdown: {0, 0, 100}}.
C5_EmptyTextResult ==
  ReturnedOnText("analyzeDream") /\ Val(call.content) = <<>> =>
    /\ ret.value.keywords = <<>>
    /\ ret.value.emotions.primary = "neutral"
    /\ ret.value.emotions.score = Hundred
    /\ ret.value.emotions.breakdown = NeutralBreakdown

ZeroSentiment == [score |-> Zero, comparative |-> Zero, vote |-> "neutral"]

BlankCall(fn) == Done(fn) /\ IsSome(call.content) /\ trimIsEmpty(Val(call.content))

\* C6: for every text that is empty or only whitespace, analyzeDream and
\* analyzeText return the neutral default (no keyword, no symbol, neutral
\* emotion with breakdown {0, 0, 100}, zero sentiment) and run none of the
\* tokenising components.
C6_BlankShortCircuits ==
  /\ BlankCall("analyzeDream") =>
       /\ ~ret.threw
       /\ ret.value.keywords = <<>>
       /\ ret.value.symbols = <<>>
       /\ ret.value.emotions.primary = "neutral"
       /\ ret.value.emotions.breakdown = NeutralBreakdown
       /\ ret.value.sentiment = ZeroSentiment
       /\ ran = {}
  /\ BlankCall("analyzeText") =>
       /\ ~ret.threw
       /\ ret.value.keywords = <<>>
       /\ ret.value.sentiment = ZeroSentiment
       /\ ran = {}

C6_Witness ==
  /\ Done("analyzeDream")
  /\ call.content = Some(<<" ", "\n">>)
  /\ ret.value = minimalAnalysis
  /\ ran = {}

NoDuplicates(arr) == \A i, j \in 1..Len(arr) : arr[i] = arr[j] => i = j

CleanKeywords(keywords, limit) ==
  /\ NoDuplicates(keywords)
  /\ \A i \in 1..Len(keywords) :
       keywords[i] \notin stopwords /\ Len(keywords[i]) > 3
  /\ Len(keywords) <= limit

\* C7: for every text, the keywords returned in TF-IDF mode (analyzeDream,
\* analyzeText) and in frequency mode (the basic analyzeDream) hold no duplicate,
\* no stop-word and no term of length <= 3, and at most 15 entries (10 in
\* frequency mode).
C7_KeywordsClean ==
  /\ ReturnedOnText("analyzeDream") \/ ReturnedOnText("analyzeText") =>
       CleanKeywords(ret.value.keywords, 15)
  /\ ReturnedOnText("analyzeDreamBasic") => CleanKeywords(ret.value.keywords, 10)

C7_Witness ==
  /\ ReturnedOnText("analyzeDream")
  /\ Len(DistinctInOrder(TokensOfCall)) > 15
  /\ Len(ret.value.keywords) = 15

\* C8: analyzeDream and analyzeText return on every text handed to them, and
\* createDream never answers 500 because of the analysis step.
C8_AnalysisNeverFails ==
  /\ (Done("analyzeDream") \/ Done("analyzeText")) /\ IsSome(call.content) => ~ret.threw
  /\ Done("createDream") /\ ret.status = 500 => ret.failedIn # "analysis"

UniqueSymbols(symbols) ==
  \A i, j \in 1..Len(symbols) : symbols[i].symbol = symbols[j].symbol => i = j

\* C9: for every text, the symbols returned by findSymbols (through analyzeDream)
\* and by findDreamSymbols hold each symbol key at most once, even when the
\* symbol occurs several times or matches as a token and as a substring.
C9_SymbolsUnique ==
  /\ ReturnedOnText("analyzeDream") => UniqueSymbols(ret.value.symbols)
  /\ Done("findDreamSymbols") => UniqueSymbols(ret)

C9_Witness ==
  /\ ReturnedOnText("analyzeDream")
  /\ CountOf(TokensOfCall, WordWater) = 2
  /\ Len(ret.value.symbols) = 1
  /\ ret.value.symbols[1].symbol = WordWater

\* the window the context is specified to be, for a match at matchIndex of the
\* lowercased text
SpecifiedContext(text, matchIndex, symbolLength) ==
  (IF Max(0, matchIndex - 50) > 0 THEN Ellipsis ELSE <<>>)
  \o SubSeq(text, Max(0, matchIndex - 50) + 1,
            Min(Len(text), matchIndex + symbolLength + 50))
  \o (IF Min(Len(text), matchIndex + symbolLength + 50) < Len(text)
      THEN Ellipsis ELSE <<>>)

ContextsAsSpecified(symbols, text) ==
  \A i \in 1..Len(symbols) :
    /\ symbols[i].context =
         SpecifiedContext(text, indexOf(toLowerCase(text), symbols[i].symbol),
                          Len(symbols[i].symbol))
    /\ includes(toLowerCase(symbols[i].context), symbols[i].symbol)

\* C10: for every symbol matched at index i of the lowercased text, the context
\* is the original text from max(0, i-50) to min(length, i+|symbol|+50), with
\* '...' in front exactly when the window does not start at 0 and '...' behind
\* exactly when it does not reach the end; so the context contains the symbol
\* as a case-insensitive substring.
C10_ContextWindow ==
  /\ ReturnedOnText("analyzeDream") =>
       ContextsAsSpecified(ret.value.symbols, Val(call.content))
  /\ Done("findDreamSymbols") /\ IsSome(call.content) =>
       ContextsAsSpecified(ret, Val(call.content))

(***************************************************************************)
(* Properties of calculateDreamSimilarity on pairs of stored dreams        *)
(***************************************************************************)
ListOf(field) == IF IsSome(field) THEN Val(field) ELSE <<>>

SymbolNamesOf(dream) == Map(ListOf(dream.symbols), LAMBDA s : s.symbol)

Elements(list) == {list[i] : i \in 1..Len(list)}

DuplicateFree(list) == Cardinality(Elements(list)) = Len(list)

DuplicateFreeDream(dream) ==
  DuplicateFree(SymbolNamesOf(dream)) /\ DuplicateFree(ListOf(dream.keywords))

\* C11: for all pairs of dreams whose keyword and symbol lists are
\* duplicate-free, calculateDreamSimilarity(a, b) and
\* calculateDreamSimilarity(b, a) agree on the emotional, symbolic, thematic,
\* sentiment and overall values.
C11_SimilaritySymmetric ==
  SimilarityReturned /\ DuplicateFreeDream(call.dream1)
                     /\ DuplicateFreeDream(call.dream2) =>
    ret = calculateDreamSimilarity(call.dream2, call.dream1)

C11_Witness ==
  /\ SimilarityReturned
  /\ Len(SymbolNamesOf(call.dream1)) = 1
  /\ Len(SymbolNamesOf(call.dream2)) = 2
  /\ ret.symbolic = Rat(1, 2)
  /\ calculateDreamSimilarity(call.dream2, call.dream1).symbolic = Rat(1, 2)

\* the number of common elements over the larger size; 0 when either is empty
CommonRatio(list1, list2) ==
  IF Len(list1) = 0 \/ Len(list2) = 0 THEN Zero
  ELSE Rat(Cardinality(Elements(list1) \cap Elements(list2)),
           Max(Len(list1), Len(list2)))

\* C12: the symbolic (thematic) value is the number of common symbols
\* (keywords) divided by the larger of the two list sizes, and is 0 when either
\* list is empty or missing; two dreams with the same set of keywords have
\* thematic similarity exactly 1.
C12_OverlapRatio ==
  SimilarityReturned =>
    /\ ret.symbolic = CommonRatio(SymbolNamesOf(call.dream1), SymbolNamesOf(call.dream2))
    /\ ret.thematic = CommonRatio(ListOf(call.dream1.keywords),
                                  ListOf(call.dream2.keywords))
    /\ (/\ ListOf(call.dream1.keywords) # <<>>
        /\ Elements(ListOf(call.dream1.keywords)) = Elements(ListOf(call.dream2.keywords)))
         => ret.thematic = One

C12_Witness ==
  /\ SimilarityReturned
  /\ call.dream1.keywords = Some(<<"water", "fear">>)
  /\ call.dream2.keywords = Some(<<"fear", "water">>)
  /\ ~IsSome(call.dream1.symbols)
  /\ ret.thematic = One
  /\ ret.symbolic = Zero

(***************************************************************************)
(* Properties of the trend analysis inside findEvolvingPatterns            *)
(***************************************************************************)
TrendsReturned == EvolvingReturned /\ Len(call.dreamHistory) >= 3

AllDreamsOfCall == Append(call.dreamHistory, call.currentDream)

Carrying(dreams, propertyPath) ==
  Filter(dreams, LAMBDA d : IsSome(getProperty(d, propertyPath)))

\* the months in which at least one dream of the call carries the field
MonthsWithData(propertyPath) ==
  {monthKey(d.date) : d \in Elements(Carrying(AllDreamsOfCall, propertyPath))}

TrendDeclared(trends) == trends.hasEvolution \/ trends.trend # "insufficient data"

ScoresOfMonth(key) ==
  Map(Filter(Carrying(AllDreamsOfCall, "sentiment.score"),
             LAMBDA d : monthKey(d.date) = key),
      LAMBDA d : Val(d.sentiment))

MeanOf(values) == RatDiv(Sum(values), Rat(Len(values), 1))

\* C13: dreams that lack the analysed field are left out of their month's
\* aggregate, and a trend is declared (hasEvolution, or a trend other than
\* 'insufficient data') only when at least 3 months have a dream carrying it.
C13_MissingFieldsLeftOut ==
  TrendsReturned =>
    /\ TrendDeclared(ret.emotionTrends) =>
         Cardinality(MonthsWithData("emotions.primary")) >= 3
    /\ TrendDeclared(ret.sentimentTrends) =>
         /\ Cardinality(MonthsWithData("sentiment.score")) >= 3
         /\ Len(ret.sentimentTrends.values) = Cardinality(MonthsWithData("sentiment.score"))
         /\ Elements(ret.sentimentTrends.values) =
              {MeanOf(ScoresOfMonth(key)) : key \in MonthsWithData("sentiment.score")}

\* three months with a score, one of them also holding a dream without sentiment
C13_Witness ==
  /\ TrendsReturned
  /\ TrendDeclared(ret.sentimentTrends)
  /\ \E i \in 1..Len(call.dreamHistory) :
       /\ ~IsSome(call.dreamHistory[i].sentiment)
       /\ monthKey(call.dreamHistory[i].date) \in MonthsWithData("sentiment.score")

DatesWithData(propertyPath) ==
  {d.date : d \in Elements(Carrying(AllDreamsOfCall, propertyPath))}

EarliestDate(dates) == CHOOSE d \in dates : \A e \in dates : DateLeq(d, e)

LatestDate(dates) == CHOOSE d \in dates : \A e \in dates : DateLeq(e, d)

\* C15: the month buckets are processed in chronological order: the startValue
\* of a declared sentiment trend is the mean of the earliest month with a score,
\* its endValue the mean of the latest month with a score.
C15_MonthsChronological ==
  TrendsReturned /\ TrendDeclared(ret.sentimentTrends) =>
    /\ ret.sentimentTrends.startValue =
         MeanOf(ScoresOfMonth(monthKey(EarliestDate(DatesWithData("sentiment.score")))))
    /\ ret.sentimentTrends.endValue =
         MeanOf(ScoresOfMonth(monthKey(LatestDate(DatesWithData("sentiment.score")))))

Increases(values) ==
  Cardinality({i \in 2..Len(values) : RatLt(values[i - 1], values[i])})

Decreases(values) ==
  Cardinality({i \in 2..Len(values) : RatLt(values[i], values[i - 1])})

DirectionOfCounts(increases, decreases) ==
  IF increases > decreases THEN "increasing"
  ELSE IF decreases > increases THEN "decreasing" ELSE "stable"

\* C16: for a series of at least 3 monthly means, the direction of the sentiment
\* trend is 'increasing' when the strict increases between consecutive means
\* outnumber the strict decreases, 'decreasing' when the decreases outnumber the
\* increases and 'stable' otherwise; hasEvolution is true exactly when the
\* direction is not 'stable'.
C16_DirectionByCounts ==
  TrendsReturned /\ TrendDeclared(ret.sentimentTrends) =>
    /\ Len(ret.sentimentTrends.values) >= 3
    /\ ret.sentimentTrends.direction =
         DirectionOfCounts(Increases(ret.sentimentTrends.values),
                           Decreases(ret.sentimentTrends.values))
    /\ ret.sentimentTrends.trend = ret.sentimentTrends.direction
    /\ ret.sentimentTrends.hasEvolution = (ret.sentimentTrends.direction # "stable")

\* one increase and one decrease between means that start and end apart
C16_Witness ==
  /\ TrendsReturned
  /\ TrendDeclared(ret.sentimentTrends)
  /\ Increases(ret.sentimentTrends.values) = 1
  /\ Decreases(ret.sentimentTrends.values) = 1
  /\ ret.sentimentTrends.startValue # ret.sentimentTrends.endValue
  /\ ret.sentimentTrends.direction = "stable"
  /\ ~ret.sentimentTrends.hasEvolution

EmotionsOfMonth(key) ==
  Map(Filter(Carrying(AllDreamsOfCall, "emotions.primary"),
             LAMBDA d : monthKey(d.date) = key),
      LAMBDA d : Val(d.emotions))

FirstPosition(values, v) == MinOf({i \in 1..Len(values) : values[i] = v})

\* the most frequent value, the one met first among those of the highest count
ModeFirstMet(values) ==
  CHOOSE v \in Elements(values) :
    \A w \in Elements(values) :
      \/ CountOf(values, v) > CountOf(values, w)
      \/ /\ CountOf(values, v) = CountOf(values, w)
         /\ FirstPosition(values, v) <= FirstPosition(values, w)

\* C17: for the primary emotion, the value of a month is the most frequent value
\* among the month's entries, the first met on a tie; the trend is 'changing' and
\* hasEvolution true exactly when the first month's value differs from the last
\* month's value, and 'stable' otherwise.
C17_CategoricalTrend ==
  TrendsReturned /\ TrendDeclared(ret.emotionTrends) =>
    /\ Len(ret.emotionTrends.values) = Cardinality(MonthsWithData("emotions.primary"))
    /\ \A key \in MonthsWithData("emotions.primary") :
         \E i \in 1..Len(ret.emotionTrends.values) :
           /\ ret.emotionTrends.values[i] = ModeFirstMet(EmotionsOfMonth(key))
           /\ Cardinality({k \in MonthsWithData("emotions.primary") :
                             StringLess(k, key)}) = i - 1
    /\ ret.emotionTrends.startValue = ret.emotionTrends.values[1]
    /\ ret.emotionTrends.endValue =
         ret.emotionTrends.values[Len(ret.emotionTrends.values)]
    /\ ret.emotionTrends.hasEvolution =
         (ret.emotionTrends.startValue # ret.emotionTrends.endValue)
    /\ ret.emotionTrends.trend =
         (IF ret.emotionTrends.startValue # ret.emotionTrends.endValue
          THEN "changing" ELSE "stable")

\* a month whose two entries tie, the first of them deciding a changing trend
C17_Witness ==
  /\ TrendsReturned
  /\ TrendDeclared(ret.emotionTrends)
  /\ ret.emotionTrends.trend = "changing"
  /\ \E key \in MonthsWithData("emotions.primary") :
       /\ Len(EmotionsOfMonth(key)) = 2
       /\ EmotionsOfMonth(key)[1] # EmotionsOfMonth(key)[2]
       /\ ret.emotionTrends.startValue = EmotionsOfMonth(key)[1]
       /\ ret.emotionTrends.endValue = EmotionsOfMonth(key)[2]

\* the call returned emotions computed by analyzeEmotions
EmotionsAnalysed ==
  /\ ReturnedOnText("analyzeDream") \/ ReturnedOnText("analyzeDreamBasic")
  /\ "analyzeEmotions" \in ran

StrictlyGreatest(breakdown, type) ==
  \A other \in {"positive", "negative", "neutral"} \ {type} :
    RatLt(breakdown[other], breakdown[type])

LargestOf(breakdown) ==
  CHOOSE v \in {breakdown.positive, breakdown.negative, breakdown.neutral} :
    /\ RatLeq(breakdown.positive, v)
    /\ RatLeq(breakdown.negative, v)
    /\ RatLeq(breakdown.neutral, v)

\* primary is the category that strictly dominates, neutral when none does
PrimaryDominates(emotions) ==
  /\ \A type \in {"positive", "negative", "neutral"} :
       StrictlyGreatest(emotions.breakdown, type) => emotions.primary = type
  /\ (\A type \in {"positive", "negative", "neutral"} :
        ~StrictlyGreatest(emotions.breakdown, type)) => emotions.primary = "neutral"

\* C18: analyzeEmotions sets primary to the category whose breakdown value is
\* strictly greater than both others and to neutral when no category strictly
\* dominates; score is the breakdown value of primary, which is the largest of
\* the three breakdown values.
C18_PrimaryAndScore ==
  EmotionsAnalysed =>
    /\ PrimaryDominates(ret.value.emotions)
    /\ ret.value.emotions.score = ret.value.emotions.breakdown[ret.value.emotions.primary]
    /\ ret.value.emotions.score = LargestOf(ret.value.emotions.breakdown)

\* primary follows strict domination, and score is the breakdown value of primary
PrimaryAndItsValue ==
  EmotionsAnalysed =>
    /\ PrimaryDominates(ret.value.emotions)
    /\ ret.value.emotions.score = ret.value.emotions.breakdown[ret.value.emotions.primary]

IsNumericToken(token) == Len(token) > 0 /\ \A i \in 1..Len(token) : IsDigit(token[i])

\* by descending count, the term met first in tokens ahead on equal counts
FrequencyOrdered(keywords, tokens) ==
  \A i, j \in 1..Len(keywords) :
    i < j =>
      \/ CountOf(tokens, keywords[i]) > CountOf(tokens, keywords[j])
      \/ /\ CountOf(tokens, keywords[i]) = CountOf(tokens, keywords[j])
         /\ FirstPosition(tokens, keywords[i]) < FirstPosition(tokens, keywords[j])

\* C19: the frequency-mode extractKeywords returns no numeric token, and returns
\* the remaining terms by descending frequency, ties in first-seen order.
C19_NoNumericKeyword ==
  ReturnedOnText("analyzeDreamBasic") =>
    /\ \A i \in 1..Len(ret.value.keywords) : ~IsNumericToken(ret.value.keywords[i])
    /\ FrequencyOrdered(ret.value.keywords, TokensOfCall)

\* without the numeric terms the keywords are in the claimed order
NonNumericKeywordsOrdered ==
  ReturnedOnText("analyzeDreamBasic") =>
    FrequencyOrdered(Filter(ret.value.keywords, LAMBDA k : ~IsNumericToken(k)),
                     TokensOfCall)

(***************************************************************************)
(* Specification: one call of suggestDreamCategories (either variant), or   *)
(* one createDream request that stores the suggested category               *)
(***************************************************************************)
CategoryKeywordLists == SeqsUpTo({WordQuest, WordMagic, WordLucid}, MaxList)

\* comparative scores on both sides of the nightmare threshold; 300 times the
\* score is 150, 80, 75, 60, 45
CategoryComparatives ==
  {Rat(-1, 2), Rat(-4, 15), Rat(-1, 4), Rat(-1, 5), Rat(-15, 100), Zero, Rat(1, 2)}

CategoryPhrases ==
  {<<>>, <<[type |-> "verb_phrase", text |-> <<"I", " ", "k", "n", "e", "w">>]>>}

\* what suggestDreamCategories of advancedNLP reads of an analysis
TextAnalyses ==
  {[sentiment |-> sentimentOf(comparative, comparative), keywords |-> keywords,
    phrases |-> phrases] :
     comparative \in CategoryComparatives, keywords \in CategoryKeywordLists,
     phrases \in CategoryPhrases}

\* primary emotions with a score the percentages of analyzeEmotions can take
CategoryEmotions ==
  {[primary |-> "negative", score |-> Rat(k, 1)] : k \in {60, 70, 75, 80, 100}}
  \cup {[primary |-> "positive", score |-> Rat(100, 1)],
        [primary |-> "neutral", score |-> Zero]}

CategorySymbols == {<<>>, <<[symbol |-> WordMountain]>>, <<[symbol |-> WordWater]>>}

\* what suggestDreamCategories of dreamAnalyzer reads of an analysis
DreamAnalyses ==
  {[emotions |-> emotions, symbols |-> symbols, keywords |-> keywords] :
     emotions \in CategoryEmotions, symbols \in CategorySymbols,
     keywords \in CategoryKeywordLists}

\* one word of the positive emotion lexicon among seven words of no polarity
HappyAmongWater == Join(<<WordHappy>> \o Repeat(WordWater, 7))

CategoryTexts ==
  {WordWater, WordHappy, WordQuest, Join(<<WordQuest, WordMagic>>),
   Join(<<WordFear, WordQuest>>), Join(<<WordMagic, WordLucid>>), HappyAmongWater}

InitCategories ==
  /\ pc = "call"
  /\ ret = None
  /\ ran = {}
  /\ db = <<>>
  /\ inflight = <<>>
  /\ served = <<>>
  /\ users = <<>>
  /\ clock = Epoch
  /\ \/ \E analysis \in {None} \cup {Some(a) : a \in TextAnalyses} :
          call = [fn |-> "suggestDreamCategories", analysis |-> analysis]
     \/ \E analysis \in DreamAnalyses :
          call = [fn |-> "suggestDreamCategoriesAnalyzer", analysis |-> analysis]
     \/ \E text \in CategoryTexts, category \in Categories :
          \E doc \in DocsOf(Some(text)) :
            call = [fn |-> "createDream", content |-> Some(text), category |-> category,
                    doc |-> doc, storeAccepts |-> TRUE]

SuggestDreamCategories ==
  /\ pc = "call" /\ call.fn = "suggestDreamCategories"
  /\ ret' = suggestDreamCategoriesOf(call.analysis)
  /\ pc' = "done"
  /\ UNCHANGED <<call, ran, db, inflight, served, users, clock>>

SuggestDreamCategoriesAnalyzer ==
  /\ pc = "call" /\ call.fn = "suggestDreamCategoriesAnalyzer"
  /\ ret' = suggestDreamCategoriesAnalyzer(call.analysis)
  /\ pc' = "done"
  /\ UNCHANGED <<call, ran, db, inflight, served, users, clock>>

NextCategories ==
  \/ SuggestDreamCategories
  \/ SuggestDreamCategoriesAnalyzer
  \/ CreateDream

SpecCategories == InitCategories /\ [][NextCategories]_vars

ByConfidence(list) ==
  \A i \in 1..(Len(list) - 1) : RatLeq(list[i + 1].confidence, list[i].confidence)

FirstIsMaximum(list) ==
  Len(list) > 0 /\ \A i \in 1..Len(list) : RatLeq(list[i].confidence, list[1].confidence)

SameCandidates(list, candidates) ==
  Len(list) = Len(candidates) /\ Elements(list) = Elements(candidates)

\* the candidates of the rules that fire on the analysis of the call, in the
\* order of the rules; the default candidate when none fires
CandidatesOfCall ==
  IF call.fn = "suggestDreamCategoriesAnalyzer" THEN analyzerCandidates(call.analysis)
  ELSE IF firingCandidates(Val(call.analysis)) = <<>>
       THEN defaultCandidates(Val(call.analysis).sentiment)
       ELSE firingCandidates(Val(call.analysis))

SuggestionReturned ==
  \/ Done("suggestDreamCategories") /\ IsSome(call.analysis)
  \/ Done("suggestDreamCategoriesAnalyzer")

SuggestionOfRequest == suggestDreamCategories(analyzeText(call.content, call.doc).value)

\* C20: both variants of suggestDreamCategories return all the firing
\* candidates by non-increasing confidence, and the category createDream stores
\* when the request names none is that of a candidate of maximum confidence.
C20_CategoriesByConfidence ==
  /\ SuggestionReturned =>
       /\ SameCandidates(ret, CandidatesOfCall)
       /\ ByConfidence(ret)
       /\ FirstIsMaximum(ret)
  /\ Done("createDream") /\ ret.status = 201 /\ ~IsSome(call.category) =>
       \E i \in 1..Len(SuggestionOfRequest) :
         /\ ret.dream.category = SuggestionOfRequest[i].category
         /\ \A j \in 1..Len(SuggestionOfRequest) :
              RatLeq(SuggestionOfRequest[j].confidence, SuggestionOfRequest[i].confidence)

\* three rules fire and the last of them comes first in the result
C20_Witness ==
  /\ Done("suggestDreamCategories")
  /\ IsSome(call.analysis)
  /\ Len(ret) >= 3
  /\ ret # CandidatesOfCall
  /\ ret[1] = CandidatesOfCall[Len(CandidatesOfCall)]

\* a stored category that is not that of the first rule to fire
CategoryStoredOutOfRuleOrder ==
  /\ Done("createDream") /\ ret.status = 201 /\ ~IsSome(call.category)
  /\ ret.dream.category = "fantasy"
  /\ hasTheme(analyzeText(call.content, call.doc).value, adventureWords)

Healing == <<Candidate("healing", Rat(50, 1))>>

Uncategorized == <<Candidate("uncategorized", Rat(30, 1))>>

\* a createDream request without category that was stored
StoredWithSuggestion == Done("createDream") /\ ret.status = 201 /\ ~IsSome(call.category)

NoRuleFiresOnRequest ==
  firingCandidates(analyzeText(call.content, call.doc).value) = <<>>

\* C21: when no category rule fires, suggestDreamCategories returns exactly one
\* candidate, 'healing' with confidence 50 if the primary emotion of the
\* emotion classifier is positive and 'uncategorized' with confidence 30
\* otherwise; createDream stores the category of that candidate.
C21_DefaultByPrimaryEmotion ==
  /\ Done("suggestDreamCategoriesAnalyzer") /\ analyzerFiring(call.analysis) = <<>> =>
       ret = (IF call.analysis.emotions.primary = "positive" THEN Healing
              ELSE Uncategorized)
  /\ Done("suggestDreamCategories") /\ IsSome(call.analysis)
       /\ firingCandidates(Val(call.analysis)) = <<>> =>
       ret \in {Healing, Uncategorized}
  /\ StoredWithSuggestion /\ NoRuleFiresOnRequest =>
       ret.dream.category =
         (IF analyzeDream(call.content).value.emotions.primary = "positive"
          THEN "healing" ELSE "uncategorized")

\* the default of the advancedNLP variant follows the vote of the sentiment
DefaultBySentimentVote ==
  /\ Done("suggestDreamCategories") /\ IsSome(call.analysis)
       /\ firingCandidates(Val(call.analysis)) = <<>> =>
       ret = (IF Val(call.analysis).sentiment.vote = "positive" THEN Healing
              ELSE Uncategorized)
  /\ StoredWithSuggestion /\ NoRuleFiresOnRequest =>
       ret.dream.category =
         (IF analyzeText(call.content, call.doc).value.sentiment.vote = "positive"
          THEN "healing" ELSE "uncategorized")

NightmaresOf(list) == {i \in 1..Len(list) : list[i].category = "nightmare"}

NightmareCondition(sentiment) ==
  sentiment.vote = "negative" /\ RatLt(sentiment.comparative, Rat(-15, 100))

ClaimedNightmareConfidence(comparative) ==
  RatMin(Rat(90, 1), RatMul(RatAbs(comparative), Rat(300, 1)))

\* C22: when sentiment.vote is negative and sentiment.comparative < -0.15 the
\* candidates hold 'nightmare' with confidence min(90, |comparative| * 300),
\* which is above 45 and at most 90; otherwise they hold no 'nightmare'.
C22_NightmareRule ==
  Done("suggestDreamCategories") /\ IsSome(call.analysis) =>
    IF NightmareCondition(Val(call.analysis).sentiment)
    THEN /\ Cardinality(NightmaresOf(ret)) = 1
         /\ \A i \in NightmaresOf(ret) :
              /\ ret[i].confidence =
                   ClaimedNightmareConfidence(Val(call.analysis).sentiment.comparative)
              /\ RatLt(Rat(45, 1), ret[i].confidence)
              /\ RatLeq(ret[i].confidence, Rat(90, 1))
    ELSE NightmaresOf(ret) = {}

\* a comparative score whose 300-fold exceeds the cap
C22_Witness ==
  /\ Done("suggestDreamCategories")
  /\ IsSome(call.analysis)
  /\ Val(call.analysis).sentiment.comparative = Rat(-1, 2)
  /\ \E i \in NightmaresOf(ret) : ret[i].confidence = Rat(90, 1)

(***************************************************************************)
(* Specification: create and update requests on the dreams collection       *)
(***************************************************************************)
MaxDreams == 1

Users == {"ann", "bob"}

StoreTexts == {WordWater, WordHappy, WordFear, <<" ">>}

\* req.body.content: absent, empty, or a text
StoreContents == {None, Some(<<>>)} \cup {Some(text) : text \in StoreTexts}

InitStore ==
  /\ pc = "idle"
  /\ call = [fn |-> "none"]
  /\ ret = None
  /\ ran = {}
  /\ db = <<>>
  /\ inflight = <<>>
  /\ served = <<>>
  /\ users = <<>>
  /\ clock = Epoch

CreateDreamRequest ==
  /\ Len(db) < MaxDreams
  /\ \E userId \in Users, content \in StoreContents, category \in Categories :
       /\ call' = [fn |-> "createDream", userId |-> userId, content |-> content,
                   category |-> category]
       /\ ret' = createDream(content, category, None, NoDoc, Some(dreamSymbolKeys),
                             TRUE)
       /\ db' = IF createDream(content, category, None, NoDoc, Some(dreamSymbolKeys),
                               TRUE).status = 201
                THEN Append(db, [_id |-> Len(db) + 1, user |-> userId] @@
                                createDream(content, category, None, NoDoc,
                                            Some(dreamSymbolKeys), TRUE).dream)
                ELSE db
  /\ pc' = "done"
  /\ UNCHANGED <<ran, inflight, served, users, clock>>

UpdateDreamRequest ==
  /\ \E id \in 1..MaxDreams, userId \in Users, content \in StoreContents,
        category \in Categories :
       /\ call' = [fn |-> "updateDream", id |-> id, userId |-> userId,
                   content |-> content, category |-> category]
       /\ ret' = updateDream(db, id, userId, content, category, None, NoDoc,
                             Some(dreamSymbolKeys))
       /\ db' = IF updateDream(db, id, userId, content, category, None, NoDoc,
                               Some(dreamSymbolKeys)).status = 200
                THEN [db EXCEPT ![id] = updateDream(db, id, userId, content, category,
                                                    None, NoDoc,
                                                    Some(dreamSymbolKeys)).dream]
                ELSE db
  /\ pc' = "done"
  /\ UNCHANGED <<ran, inflight, served, users, clock>>

PutDreamRequest ==
  /\ \E id \in 1..MaxDreams, userId \in {None} \cup {Some(u) : u \in Users},
        content \in StoreContents :
       /\ call' = [fn |-> "putDream", id |-> id, userId |-> userId, content |-> content]
       /\ ret' = putDream(db, id, userId, content)
       /\ db' = IF putDream(db, id, userId, content).status = 200
                THEN [db EXCEPT ![id] = putDream(db, id, userId, content).dream]
                ELSE db
  /\ pc' = "done"
  /\ UNCHANGED <<ran, inflight, served, users, clock>>

GenerateDreamInsightsRequest ==
  /\ \E id \in 1..MaxDreams, userId \in Users :
       /\ call' = [fn |-> "generateDreamInsights", id |-> id, userId |-> userId]
       /\ ret' = generateDreamInsights(db, id, userId)
  /\ pc' = "done"
  /\ UNCHANGED <<ran, db, inflight, served, users, clock>>

NextStore ==
  \/ CreateDreamRequest
  \/ UpdateDreamRequest
  \/ PutDreamRequest
  \/ GenerateDreamInsightsRequest

SpecStore == InitStore /\ [][NextStore]_vars

HasPath(dream, path) == path \in DOMAIN dream

\* the symbols the two analysers give for a content
SymbolsOfContent(content) ==
  {findDreamSymbols(Some(content), Some(dreamSymbolKeys)),
   analyzeDream(Some(content)).value.symbols}

\* the stored analysis of a dream is the analysis of its stored content
AnalysisOfContent(dream) ==
  /\ HasPath(dream, "keywords")
  /\ dream.keywords = analyzeDream(Some(dream.content)).value.keywords
  /\ HasPath(dream, "emotions")
  /\ dream.emotions = analyzeDream(Some(dream.content)).value.emotions
  /\ HasPath(dream, "symbols")
  /\ dream.symbols \in SymbolsOfContent(dream.content)
  /\ HasPath(dream, "sentiment")
  /\ dream.sentiment = analyzeDream(Some(dream.content)).value.sentiment

\* C14: after every createDream and updateDream request, the keywords,
\* emotions, symbols and sentiment stored with each dream are the analysis of the
\* content stored with it.
C14_StoredAnalysisCurrent == \A id \in DOMAIN db : AnalysisOfContent(db[id])

\* the stored keywords, emotions and symbols are the analysis of the stored
\* content
StoredKeywordsEmotionsSymbolsCurrent ==
  \A id \in DOMAIN db :
    /\ db[id].keywords = analyzeDream(Some(db[id].content)).value.keywords
    /\ db[id].emotions = analyzeDream(Some(db[id].content)).value.emotions
    /\ db[id].symbols \in SymbolsOfContent(db[id].content)

\* no stored dream ever carries a sentiment
SentimentNeverStored == \A id \in DOMAIN db : ~HasPath(db[id], "sentiment")

\* an insights request of the owner on a stored dream
InsightsOfOwner ==
  /\ Done("generateDreamInsights")
  /\ call.id \in DOMAIN db
  /\ db[call.id].user = call.userId

ProducedByDetector(record) == {"symbol", "meaning", "context"} \subseteq DOMAIN record

\* C23: for a dream of the requester whose stored symbols are records of the
\* symbol detectors and are not empty, generateDreamInsights answers 200 with the
\* insights, the waking-life connections among them.
C23_InsightsComplete ==
  /\ InsightsOfOwner
  /\ Len(db[call.id].symbols) > 0
  /\ \A i \in 1..Len(db[call.id].symbols) : ProducedByDetector(db[call.id].symbols[i])
  => /\ ret.status = 200
     /\ "wakingLifeConnections" \in DOMAIN ret.insights

\* a dream without symbols gets its insights
InsightsWithoutSymbols ==
  InsightsOfOwner /\ Len(db[call.id].symbols) = 0 =>
    ret.status = 200 /\ Len(ret.insights.wakingLifeConnections) >= 1

\* a dream with symbols never gets them
InsightsWithSymbolsFail ==
  InsightsOfOwner /\ Len(db[call.id].symbols) > 0 => ret.status = 500

(***************************************************************************)
(* Specification: privacy and sharing of the dreams of the collection.      *)
(* getSharedDream is two steps, its findById and its save(), and requests   *)
(* between the two are held in inflight; served counts, for each dream, the *)
(* 200 answers of getSharedDream since the dream was created or last shared *)
(* by shareDream.                                                           *)
(***************************************************************************)
MaxViews == 2

MaxViewers == 2

\* req.body.isPrivate: absent, true or false
Privacies == {None, Some(TRUE), Some(FALSE)}

SharedContent == Some(WordWater)

\* the users who record dreams; every user of Users asks for them
Owners == {"ann"}

InitSharing ==
  /\ pc = "idle"
  /\ call = [fn |-> "none"]
  /\ ret = None
  /\ ran = {}
  /\ db = <<>>
  /\ inflight = <<>>
  /\ served = <<>>
  /\ users = <<>>
  /\ clock = Epoch

CreateDreamWithPrivacy ==
  /\ Len(db) < MaxDreams
  /\ \E userId \in Owners, isPrivate \in Privacies :
       /\ call' = [fn |-> "createDream", userId |-> userId, isPrivate |-> isPrivate]
       /\ ret' = createDream(SharedContent, None, isPrivate, NoDoc,
                             Some(dreamSymbolKeys), TRUE)
       /\ db' = Append(db, [_id |-> Len(db) + 1, user |-> userId] @@
                           createDream(SharedContent, None, isPrivate, NoDoc,
                                       Some(dreamSymbolKeys), TRUE).dream)
  /\ served' = Append(served, 0)
  /\ pc' = "done"
  /\ UNCHANGED <<ran, inflight, users, clock>>

UpdateDreamPrivacy ==
  /\ \E id \in 1..MaxDreams, userId \in Users, isPrivate \in Privacies :
       /\ call' = [fn |-> "updateDream", id |-> id, userId |-> userId,
                   isPrivate |-> isPrivate]
       /\ ret' = updateDream(db, id, userId, None, None, isPrivate, NoDoc,
                             Some(dreamSymbolKeys))
       /\ db' = IF updateDream(db, id, userId, None, None, isPrivate, NoDoc,
                               Some(dreamSymbolKeys)).status = 200
                THEN [db EXCEPT ![id] = updateDream(db, id, userId, None, None,
                                                    isPrivate, NoDoc,
                                                    Some(dreamSymbolKeys)).dream]
                ELSE db
  /\ pc' = "done"
  /\ UNCHANGED <<ran, inflight, served, users, clock>>

ShareDreamRequest ==
  /\ \E id \in 1..MaxDreams, userId \in Users :
       /\ call' = [fn |-> "shareDream", id |-> id, userId |-> userId]
       /\ ret' = shareDream(db, id, userId)
       /\ db' = IF shareDream(db, id, userId).status = 200
                THEN [db EXCEPT ![id] = shareDream(db, id, userId).dream]
                ELSE db
       /\ served' = IF shareDream(db, id, userId).status = 200
                    THEN [served EXCEPT ![id] = 0]
                    ELSE served
  /\ pc' = "done"
  /\ UNCHANGED <<ran, inflight, users, clock>>

GetDreamByIdRequest ==
  /\ \E id \in 1..MaxDreams, userId \in Users :
       /\ call' = [fn |-> "getDreamById", id |-> id, userId |-> userId]
       /\ ret' = getDreamById(db, id, userId)
  /\ pc' = "done"
  /\ UNCHANGED <<ran, db, inflight, served, users, clock>>

\* the requests in flight for a dream
ViewersOf(id) ==
  LET viewers == {found \in BagToSet(inflight) : found.id = id}
  IN BagCardinality([found \in viewers |-> inflight[found]])

\* findById and the checks of getSharedDream; a request that found a public dream
\* goes on to its save()
GetSharedDreamFind ==
  /\ BagCardinality(inflight) < MaxViewers
  /\ \E id \in 1..MaxDreams :
       /\ id \in DOMAIN db =>
            /\ db[id].sharing.viewCount < MaxViews
            /\ served[id] + ViewersOf(id) < MaxViews
       /\ call' = [fn |-> "getSharedDream", id |-> id]
       /\ ret' = IF getSharedDreamFound(db, id).status = 200 THEN None
                 ELSE getSharedDreamFound(db, id)
       /\ inflight' = IF getSharedDreamFound(db, id).status = 200
                      THEN inflight (+) SetToBag({getSharedDreamFound(db, id)})
                      ELSE inflight
  /\ pc' = "done"
  /\ UNCHANGED <<ran, db, served, users, clock>>

\* save() and the answer of one of the requests in flight
GetSharedDreamSave ==
  /\ \E found \in BagToSet(inflight) :
       /\ call' = [fn |-> "getSharedDream.save", id |-> found.id]
       /\ db' = [db EXCEPT ![found.id] = saveViewCount(@, found)]
       /\ ret' = sharedDream(found)
       /\ inflight' = inflight (-) SetToBag({found})
       /\ served' = [served EXCEPT ![found.id] = @ + 1]
  /\ pc' = "done"
  /\ UNCHANGED <<ran, users, clock>>

NextSharing ==
  \/ CreateDreamWithPrivacy
  \/ UpdateDreamPrivacy
  \/ ShareDreamRequest
  \/ GetDreamByIdRequest
  \/ GetSharedDreamFind
  \/ GetSharedDreamSave

SpecSharing == InitSharing /\ [][NextSharing]_vars

\* C24: in every state reached through createDream, updateDream and shareDream a
\* dream's sharing.isShared is true exactly when its isPrivate is false
C24_SharedIffPublic ==
  \A id \in DOMAIN db : db[id].sharing.isShared = (db[id].isPrivate = FALSE)

\* what the code keeps: a dream that save() stored as public is marked as shared
\* for good
SharedMarkNeverCleared ==
  [][\A id \in DOMAIN db : db[id].sharing.isShared => db'[id].sharing.isShared]_vars

\* updateDream leaves the sharing information as it was
UpdateKeepsSharing ==
  [][call'.fn = "updateDream" /\ db # <<>> => db'[1].sharing = db[1].sharing]_vars

\* C25: with no getSharedDream request in flight, the viewCount of a public dream
\* is the number of getSharedDream requests answered 200 since it was last shared
C25_NoViewLost ==
  inflight = <<>> =>
    \A id \in DOMAIN db :
      db[id].isPrivate = FALSE => db[id].sharing.viewCount = served[id]

Forbidden == [status |-> 403]

\* the request just answered asked for a dream that is private
AskedForPrivate == call.id \in DOMAIN db /\ db[call.id].isPrivate

\* C27: a dream that is private is not returned to anyone but its owner:
\* getDreamById answers a non-owner with 403 and nothing else, getSharedDream
\* answers everyone with 403 and nothing else
C27_PrivateNotDisclosed ==
  /\ call.fn = "getDreamById" /\ AskedForPrivate /\ db[call.id].user # call.userId
       => ret = Forbidden
  /\ call.fn = "getSharedDream" /\ AskedForPrivate => ret = Forbidden

\* a dream that was shared and viewed, then made private again, asked for through
\* its shared link
C27_Witness ==
  /\ call.fn = "getSharedDream"
  /\ AskedForPrivate
  /\ db[call.id].sharing.isShared
  /\ db[call.id].sharing.viewCount > 0
  /\ ret = Forbidden

\* a private dream asked for by someone who is not its owner
PrivateRefusedToOthers ==
  /\ call.fn = "getDreamById"
  /\ AskedForPrivate
  /\ db[call.id].user # call.userId
  /\ ret = Forbidden

(***************************************************************************)
(* Specification: the dream counter of the users.  createDream and          *)
(* deleteDream change the dreams collection, load the user, and save the    *)
(* user, as three steps; a request between its steps is in the bag          *)
(* inflight.                                                                *)
(***************************************************************************)
MaxRecorded == 2

MaxRequests == 2

InitStats ==
  /\ pc = "idle"
  /\ call = [fn |-> "none"]
  /\ ret = None
  /\ ran = {}
  /\ db = <<>>
  /\ inflight = <<>>
  /\ served = <<>>
  /\ users = [userId \in Owners |-> [stats |-> DefaultStats]]
  /\ clock = Epoch

\* a request that changed the dreams collection and goes on to User.findById
Started(fn, userId, date) ==
  [fn |-> fn, userId |-> userId, date |-> date, user |-> None]

\* createDream up to dream.save()
CreateDreamSave ==
  /\ Len(db) < MaxRecorded
  /\ BagCardinality(inflight) < MaxRequests
  /\ \E userId \in Owners :
       /\ call' = [fn |-> "createDream", userId |-> userId]
       /\ db' = Append(db, [_id |-> Len(db) + 1, user |-> userId, date |-> clock] @@
                           createDream(SharedContent, None, None, NoDoc,
                                       Some(dreamSymbolKeys), TRUE).dream)
       /\ inflight' = inflight (+) SetToBag({Started("createDream", userId, clock)})
  /\ ret' = None
  /\ pc' = "done"
  /\ UNCHANGED <<ran, served, users, clock>>

\* deleteDream up to findByIdAndDelete
DeleteDreamRemove ==
  /\ BagCardinality(inflight) < MaxRequests
  /\ \E id \in 1..MaxRecorded, userId \in Users :
       /\ call' = [fn |-> "deleteDream", id |-> id, userId |-> userId]
       /\ IF deleteDream(db, id, userId).status = 200
          THEN /\ db' = [db EXCEPT ![id] = Deleted]
               /\ inflight' = inflight (+)
                                SetToBag({Started("deleteDream", userId, clock)})
               /\ ret' = None
          ELSE /\ ret' = deleteDream(db, id, userId)
               /\ UNCHANGED <<db, inflight>>
  /\ pc' = "done"
  /\ UNCHANGED <<ran, served, users, clock>>

\* User.findById of a request in flight
FindUser ==
  /\ \E request \in BagToSet(inflight) :
       /\ request.user = None
       /\ call' = [fn |-> request.fn, step |-> "User.findById"]
       /\ inflight' = (inflight (-) SetToBag({request})) (+)
                      SetToBag({[request EXCEPT !.user = Some(users[request.userId])]})
  /\ ret' = None
  /\ pc' = "done"
  /\ UNCHANGED <<ran, db, served, users, clock>>

\* the stats a request in flight has computed from the user it loaded
statsToSave(request) ==
  IF request.fn = "createDream"
  THEN updateDreamStats(Val(request.user).stats, TRUE, request.date, clock)
  ELSE deleteDreamStats(Val(request.user).stats)

\* user.save() and the answer of a request in flight
SaveUser ==
  /\ \E request \in BagToSet(inflight) :
       /\ request.user # None
       /\ call' = [fn |-> request.fn, step |-> "user.save"]
       /\ users' = [users EXCEPT
                      ![request.userId].stats =
                        saveModified(@, Val(request.user).stats, statsToSave(request))]
       /\ inflight' = inflight (-) SetToBag({request})
       /\ ret' = [status |-> IF request.fn = "createDream" THEN 201 ELSE 200]
  /\ pc' = "done"
  /\ UNCHANGED <<ran, db, served, clock>>

NextStats ==
  \/ CreateDreamSave
  \/ DeleteDreamRemove
  \/ FindUser
  \/ SaveUser

SpecStats == InitStats /\ [][NextStats]_vars

dreamsOf(userId) == {id \in storedIds(db) : db[id].user = userId}

\* C26: once every createDream and deleteDream request has completed, the
\* totalDreams of a user is the number of the user's stored dreams, and it is
\* never negative
C26_TotalDreamsExact ==
  \A userId \in DOMAIN users :
    /\ users[userId].stats.totalDreams >= 0
    /\ inflight = <<>> =>
         users[userId].stats.totalDreams = Cardinality(dreamsOf(userId))

\* what the code keeps: the counter is never negative and never above the number
\* of dreams that were created
TotalDreamsWithinCreated ==
  \A userId \in DOMAIN users :
    /\ users[userId].stats.totalDreams >= 0
    /\ users[userId].stats.totalDreams <= Len(db)

(***************************************************************************)
(* Specification: the dream streak of one user.  The createDream requests   *)
(* run one after the other, each saving its dream and then updating the     *)
(* stats of the user; the clock of the server advances between them.        *)
(***************************************************************************)
MaxDay == 3

MaxTick == 2

Instants == {Instant(day, tick) : day \in 1..MaxDay, tick \in 1..MaxTick}

\* req.body.date: absent, or any date
ClientDates == {None} \cup {Some(date) : date \in Instants}

InitStreak ==
  /\ pc = "idle"
  /\ call = [fn |-> "none"]
  /\ ret = None
  /\ ran = {}
  /\ db = <<>>
  /\ inflight = <<>>
  /\ served = <<>>
  /\ users = [userId \in Owners |-> [stats |-> DefaultStats]]
  /\ clock \in {Instant(day, 1) : day \in 1..MaxDay}

\* createDream: dream.save(), User.findById, updateDreamStats; createdAt is the
\* timestamp the schema adds
RecordDream ==
  /\ Len(db) < MaxRecorded
  /\ \E userId \in Owners, date \in ClientDates :
       /\ call' = [fn |-> "createDream", userId |-> userId, date |-> date]
       /\ db' = Append(db, [_id |-> Len(db) + 1, user |-> userId,
                            date |-> dreamDateOf(date, clock), createdAt |-> clock] @@
                           createDream(SharedContent, None, None, NoDoc,
                                       Some(dreamSymbolKeys), TRUE).dream)
       /\ users' = [users EXCEPT
                      ![userId].stats =
                        saveModified(@, @, updateDreamStats(@, TRUE,
                                                            dreamDateOf(date, clock),
                                                            clock))]
  /\ ret' = [status |-> 201]
  /\ pc' = "done"
  /\ UNCHANGED <<ran, inflight, served, clock>>

AdvanceClock ==
  /\ \E later \in Instants :
       /\ InstantLt(clock, later)
       /\ clock' = later
  /\ UNCHANGED <<pc, call, ret, ran, db, inflight, served, users>>

NextStreak ==
  \/ RecordDream
  \/ AdvanceClock

SpecStreak == InitStreak /\ [][NextStreak]_vars

\* the calendar days of the dreams a user recorded: the days the dreams are dated
\* and the days they were written down
daysRecorded(userId) ==
  {db[id].date.day : id \in {i \in DOMAIN db : db[i].user = userId}} \cup
  {db[id].createdAt.day : id \in {i \in DOMAIN db : db[i].user = userId}}

hasRecorded(userId) == \E id \in DOMAIN db : db[id].user = userId

\* the streak is at least 1 once a dream has been recorded
StreakAtLeastOne ==
  \A userId \in DOMAIN users :
    hasRecorded(userId) => users[userId].stats.dreamStreak >= 1

\* the streak never exceeds the number of distinct days with a recorded dream
StreakWithinDays ==
  \A userId \in DOMAIN users :
    users[userId].stats.dreamStreak <= Cardinality(daysRecorded(userId))

\* the createDream this step answers is dated a day that already has a dream
SecondOfItsDay ==
  /\ call'.fn = "createDream"
  /\ db' # db
  /\ \E id \in DOMAIN db :
       /\ db[id].user = call'.userId
       /\ db[id].date.day = db'[Len(db')].date.day

\* the createDream this step answers is dated before lastDreamDate
DatedEarlier ==
  /\ call'.fn = "createDream"
  /\ db' # db
  /\ IsSome(users[call'.userId].stats.lastDreamDate)
  /\ InstantLt(db'[Len(db')].date, Val(users[call'.userId].stats.lastDreamDate))

SameStreak == \A userId \in DOMAIN users :
  users'[userId].stats.dreamStreak = users[userId].stats.dreamStreak

SameLastDreamDate == \A userId \in DOMAIN users :
  users'[userId].stats.lastDreamDate = users[userId].stats.lastDreamDate

\* C30: the streak is at least 1 once a dream is recorded and never exceeds the
\* number of distinct days with a recorded dream; a second dream of a day does
\* not lengthen it; a dream dated before lastDreamDate changes neither
\* lastDreamDate nor the streak
C30_StreakCountsDays ==
  /\ [](StreakAtLeastOne /\ StreakWithinDays)
  /\ [][SecondOfItsDay => users'[call'.userId].stats.dreamStreak
                            <= users[call'.userId].stats.dreamStreak]_vars
  /\ [][DatedEarlier => SameStreak /\ SameLastDreamDate]_vars

\* what the code keeps of it: a dream dated before lastDreamDate changes neither
\* lastDreamDate nor the streak
EarlierDreamChangesNothing ==
  [][DatedEarlier => SameStreak /\ SameLastDreamDate]_vars

(***************************************************************************)
(* Specification: one call of analyzeSymbolicConnections                    *)
(***************************************************************************)
MaxSymbols == 2

SymbolPool == {"water", "dog"}

\* the symbols of a dream: up to MaxSymbols records, in any order
SymbolLists == SeqsUpTo({[symbol |-> name] : name \in SymbolPool}, MaxSymbols)

InitSymbolic ==
  /\ pc = "call"
  /\ \E current \in SymbolLists,
        history \in SeqsUpTo({[symbols |-> symbols] : symbols \in SymbolLists},
                             MaxHistory) :
       call = [fn |-> "analyzeSymbolicConnections",
               currentDream |-> [symbols |-> current], dreamHistory |-> history]
  /\ ret = None
  /\ ran = {}
  /\ db = <<>>
  /\ inflight = <<>>
  /\ served = <<>>
  /\ users = <<>>
  /\ clock = Epoch

AnalyzeSymbolicConnections ==
  /\ pc = "call"
  /\ call.fn = "analyzeSymbolicConnections"
  /\ ret' = analyzeSymbolicConnections(call.currentDream, call.dreamHistory)
  /\ pc' = "done"
  /\ UNCHANGED <<call, ran, db, inflight, served, users, clock>>

NextSymbolic == AnalyzeSymbolicConnections

SpecSymbolic == InitSymbolic /\ [][NextSymbolic]_vars

RecurringNames == {ret.recurringSymbols[i].symbol : i \in DOMAIN ret.recurringSymbols}

\* C28: when there is a recurring symbol, the symbol named in symbolInsight has
\* the highest count in the history among the recurring symbols
C28_NamedIsMostFrequent ==
  Done("analyzeSymbolicConnections") /\ Len(ret.recurringSymbols) > 0 =>
    \A name \in RecurringNames :
      historicalSymbols(call.dreamHistory, name)
        <= historicalSymbols(call.dreamHistory, Val(ret.namedSymbol))

\* what the code keeps: the named symbol is the first symbol of the current
\* dream that occurs more than once in the history
NamedIsFirstRecurring ==
  Done("analyzeSymbolicConnections") /\ Len(ret.recurringSymbols) > 0 =>
    \E i \in DOMAIN call.currentDream.symbols :
      /\ call.currentDream.symbols[i].symbol = Val(ret.namedSymbol)
      /\ historicalSymbols(call.dreamHistory, Val(ret.namedSymbol)) > 1
      /\ \A j \in 1..(i - 1) :
           historicalSymbols(call.dreamHistory,
                             call.currentDream.symbols[j].symbol) <= 1

(***************************************************************************)
(* Specification: one call of analyzeRecurringPatterns                      *)
(***************************************************************************)
MaxPatternDreams == 2

MaxPatternWords == 2

WordJohn == <<"j", "o", "h", "n">>

WordParis == <<"p", "a", "r", "i", "s">>

\* the mentions of a word in a text, in the order of the text
mentions(text, word) ==
  Filter(tokenize(toLowerCase(text)), LAMBDA token : token = word)

\* extractEntities: the people of the text, then its places, one entity for each
\* mention, with the normalized text of the mention
entitiesOfText(text) ==
  Map(mentions(text, WordJohn),
      LAMBDA token : [type |-> "person", text |-> token, confidence |-> Rat(8, 10)])
  \o Map(mentions(text, WordParis),
         LAMBDA token : [type |-> "place", text |-> token, confidence |-> Rat(7, 10)])

\* what compromise reads of a text: its entities, and no phrase or the first word
\* as a noun phrase
PatternDocs(text) ==
  {[entities |-> entitiesOfText(text), topics |-> <<>>, phrases |-> phrases,
    sentences |-> <<>>] :
     phrases \in {<<>>} \cup
                 {<<[type |-> "noun_phrase", text |-> tokenize(toLowerCase(text))[i]]>> :
                    i \in 1..Min(1, Len(tokenize(toLowerCase(text))))}}

PatternTexts ==
  {Join(words) : words \in SeqsUpTo({WordJohn, WordParis, WordWater}, MaxPatternWords)}

PatternDreams ==
  UNION {{[content |-> Some(text), doc |-> doc] : doc \in PatternDocs(text)} :
           text \in PatternTexts}

InitPatterns ==
  /\ pc = "call"
  /\ \E dreams \in {None} \cup {Some(list) : list \in SeqsUpTo(PatternDreams,
                                                               MaxPatternDreams)} :
       call = [fn |-> "analyzeRecurringPatterns", dreams |-> dreams]
  /\ ret = None
  /\ ran = {}
  /\ db = <<>>
  /\ inflight = <<>>
  /\ served = <<>>
  /\ users = <<>>
  /\ clock = Epoch

AnalyzeRecurringPatterns ==
  /\ pc = "call"
  /\ call.fn = "analyzeRecurringPatterns"
  /\ ret' = analyzeRecurringPatterns(call.dreams)
  /\ pc' = "done"
  /\ UNCHANGED <<call, ran, db, inflight, served, users, clock>>

NextPatterns == AnalyzeRecurringPatterns

SpecPatterns == InitPatterns /\ [][NextPatterns]_vars

\* the analyses of the dreams of the call
PatternAnalyses ==
  IF IsSome(call.dreams)
  THEN Map(Val(call.dreams), LAMBDA dream : analyzeText(dream.content, dream.doc).value)
  ELSE <<>>

KeywordsIn(analysis) == Elements(analysis.keywords)

EntitiesIn(analysis) == {analysis.entities[i].text : i \in DOMAIN analysis.entities}

PhrasesIn(analysis) == {analysis.phrases[i].text : i \in DOMAIN analysis.phrases}

\* the number of dreams an item occurs in
DreamsWith(item, ItemsIn(_)) ==
  Cardinality({i \in DOMAIN PatternAnalyses : item \in ItemsIn(PatternAnalyses[i])})

\* every entry occurs in at least 2 dreams, counts its dreams, and the list is
\* ordered by non-increasing count
RecurringAcrossDreams(list, ItemsIn(_)) ==
  /\ \A i \in DOMAIN list :
       /\ DreamsWith(list[i].item, ItemsIn) >= 2
       /\ list[i].count = DreamsWith(list[i].item, ItemsIn)
  /\ \A i \in 1..(Len(list) - 1) : list[i].count >= list[i + 1].count

ListOfResult(name) == IF name \in DOMAIN ret THEN ret[name] ELSE <<>>

ThemesAndPhrasesAcrossDreams ==
  Done("analyzeRecurringPatterns") =>
    /\ RecurringAcrossDreams(ListOfResult("recurringThemes"), KeywordsIn)
    /\ RecurringAcrossDreams(ListOfResult("recurringPhrases"), PhrasesIn)
    /\ \A i \in 1..(Len(ListOfResult("recurringEntities")) - 1) :
         ret.recurringEntities[i].count >= ret.recurringEntities[i + 1].count

====
